---- MODULE Spec2Model ----
(***************************************************************************)
(* A model of the roguelike's frame loop (State::tick), its simulation     *)
(* systems, level transition, game-over cleanup and save/load.             *)
(*                                                                         *)
(* The world (State.ecs) is one record: a set of live entities, one        *)
(* storage per component type (a function from the entities that carry    *)
(* the component to its value, or a set for a marker component), and the   *)
(* resources (Map, GameLog, RunState, player Entity, Point).               *)
(*                                                                         *)
(* Entities are numbers.  A join visits entities in ascending order.  An   *)
(* identifier is handed out again only when no live entity and no stored   *)
(* reference uses it, which is what the generation counter of an Entity    *)
(* guarantees in the program; killed records the entities deleted during   *)
(* the last frame, whose identifiers may name new entities since.          *)
(***************************************************************************)
EXTENDS Integers, Sequences, FiniteSets, TLC

VARIABLES
    ecs,        \* State.ecs: the world
    savegame,   \* ./savegame.json: whether it exists, and its content
    process,    \* "running", "exited" (Quit) or "panicked" (unwrap/expect)
    gen         \* the dungeon generator: its map so far, the attempts made

vars == <<ecs, savegame, process, gen>>

(***************************************************************************)
(* Bounds of the model.                                                    *)
(***************************************************************************)
MaxLog == 5             \* a frame that would make the log longer is not taken
MapWidth == 5           \* the level is a walled corridor MapWidth tiles wide
MaxDepth == 2           \* no descent below this level is taken

\* The dungeon generator, scaled down: the grid (MAP_WIDTH x MAP_HEIGHT),
\* the attempts (MAX_ROOMS) and the room sizes (MIN_SIZE, MAX_SIZE).
GenWidth == 8
GenHeight == 6
MAX_ROOMS == 3
MIN_SIZE == 2
MAX_SIZE == 3

\* Entity identifiers are drawn from 1..MaxEntities: room for the player,
\* what MaxDepth levels spawn, as many identifiers still held by stale
\* references, and the save helper.
MaxEntities == (2 * (((MapWidth - 3) * MaxDepth) + 1)) + 1

Pool == 1..MaxEntities
NoFile == [exists |-> FALSE]

(***************************************************************************)
(* Small helpers.                                                          *)
(***************************************************************************)
Min(S) == CHOOSE x \in S : \A y \in S : x <= y

\* No entity: an identifier outside the pool.
NoEntity == Min(Pool) - 1

Max2(a, b) == IF a >= b THEN a ELSE b

\* Rust's i32 division truncates toward zero.
Div(a, b) == IF a >= 0 THEN a \div b ELSE -((-a) \div b)

\* A storage without the entities in S.
Drop(f, S) == [e \in (DOMAIN f) \ S |-> f[e]]

\* storage.insert(e, v): attaches v to e, replacing a value already there.
Insert(f, e, v) == [x \in (DOMAIN f) \cup {e} |-> IF x = e THEN v ELSE f[x]]

EmptyStorage == [e \in {} |-> 0]

RECURSIVE SumOf(_, _)
SumOf(f, S) ==
    IF S = {} THEN 0
    ELSE LET e == Min(S) IN f[e] + SumOf(f, S \ {e})

RECURSIVE SortedSeq(_)
SortedSeq(S) ==
    IF S = {} THEN <<>>
    ELSE LET e == Min(S) IN <<e>> \o SortedSeq(S \ {e})

SeqToSet(s) == {s[i] : i \in 1..Len(s)}

\* The elements of a set of at most one element, as a sequence.
SortedSeqOfOne(S) == IF S = {} THEN <<>> ELSE <<CHOOSE x \in S : TRUE>>

(***************************************************************************)
(* Rect (rect.rs) and Map (map.rs).                                        *)
(***************************************************************************)
Rect_new(x, y, w, h) == [x1 |-> x, y1 |-> y, x2 |-> x + w, y2 |-> y + h]

center(r) == [x |-> Div(r.x1 + r.x2, 2), y |-> Div(r.y1 + r.y2, 2)]

\* The height of the level: a border row, the floor row, border rows.
MapHeight == 3

xy_idx(map, x, y) == (y * map.width) + x

\* The floor of the level: the middle row, inside the border.
IsFloor(x, y) == y = 1 /\ x >= 1 /\ x <= MapWidth - 2

\* The column of room 0, the player's start room: the middle of the corridor.
StartX == MapWidth \div 2

\* One room around every floor tile, the start room first.
RoomXs == <<StartX>> \o SortedSeq({x \in 1..(MapWidth - 2) : x # StartX})

new_map_rooms_and_corridors(new_depth) ==
    [ tiles |-> [i \in 0..(MapWidth * MapHeight - 1) |->
                    IF IsFloor(i % MapWidth, i \div MapWidth)
                    THEN "Floor" ELSE "Wall"],
      rooms |-> [k \in 1..Len(RoomXs) |-> Rect_new(RoomXs[k] - 1, 0, 2, 2)],
      width |-> MapWidth,
      height |-> MapHeight,
      blocked |-> [i \in 0..(MapWidth * MapHeight - 1) |-> FALSE],
      tile_content |-> [i \in 0..(MapWidth * MapHeight - 1) |-> <<>>],
      bloodstains |-> {},
      depth |-> new_depth ]

(***************************************************************************)
(* The dungeon generator (Map::new_map_rooms_and_corridors, map.rs), on a  *)
(* grid of GenWidth x GenHeight tiles.                                     *)
(***************************************************************************)
\* Rect::intersect: the two rectangles overlap, on open intervals.
intersect(a, b) ==
    a.x1 < b.x2 /\ a.x2 > b.x1 /\ a.y1 < b.y2 /\ a.y2 > b.y1

\* The map the generator starts from: every tile a Wall, no room.
GenStart ==
    [ map |-> [ tiles |-> [i \in 0..(GenWidth * GenHeight - 1) |-> "Wall"],
                rooms |-> <<>>,
                width |-> GenWidth,
                height |-> GenHeight ],
      attempts |-> 0 ]

apply_room_to_map(map, room) ==
    [map EXCEPT !.tiles =
        [i \in DOMAIN @ |->
            IF \E y \in (room.y1 + 1)..room.y2 :
                  \E x \in (room.x1 + 1)..room.x2 : xy_idx(map, x, y) = i
            THEN "Floor" ELSE @[i]]]

apply_horizontal_tunnel(map, x1, x2, y) ==
    [map EXCEPT !.tiles =
        [i \in DOMAIN @ |->
            IF /\ \E x \in Min({x1, x2})..Max2(x1, x2) : xy_idx(map, x, y) = i
               /\ i > 0 /\ i < map.width * map.height
            THEN "Floor" ELSE @[i]]]

apply_vertical_tunnel(map, y1, y2, x) ==
    [map EXCEPT !.tiles =
        [i \in DOMAIN @ |->
            IF /\ \E y \in Min({y1, y2})..Max2(y1, y2) : xy_idx(map, x, y) = i
               /\ i > 0 /\ i < map.width * map.height
            THEN "Floor" ELSE @[i]]]

\* C12 mutant: the vertical tunnel of the horizontal-first order is dug in
\* the column of the previous room.
join_rooms_wrong_corner(map, new_room, horizontal_first) ==
    LET new == center(new_room)
        prev == center(map.rooms[Len(map.rooms)])
    IN IF horizontal_first
       THEN apply_vertical_tunnel(
                apply_horizontal_tunnel(map, prev.x, new.x, prev.y),
                prev.y, new.y, prev.x)
       ELSE apply_horizontal_tunnel(
                apply_vertical_tunnel(map, prev.y, new.y, prev.x),
                prev.x, new.x, new.y)

\* The two tunnels that join the new room to the room accepted before it.
join_rooms(map, new_room, horizontal_first) ==
    LET new == center(new_room)
        prev == center(map.rooms[Len(map.rooms)])
    IN IF horizontal_first
       THEN apply_vertical_tunnel(
                apply_horizontal_tunnel(map, prev.x, new.x, prev.y),
                prev.y, new.y, new.x)
       ELSE apply_horizontal_tunnel(
                apply_vertical_tunnel(map, prev.y, new.y, prev.x),
                prev.x, new.x, new.y)

\* C11 mutant: the new room is only tested against the last accepted room.
room_ok_last_only(map, new_room) ==
    map.rooms = <<>> \/ ~intersect(new_room, map.rooms[Len(map.rooms)])

\* ok: the new room intersects none of the rooms accepted so far.
room_ok(map, new_room) ==
    \A k \in 1..Len(map.rooms) : ~intersect(new_room, map.rooms[k])

\* One pass of the loop over the attempts, for the rolls w, h, x, y and the
\* roll that orders the tunnels.
generate_room(map, w, h, x, y, horizontal_first) ==
    LET new_room == Rect_new(x, y, w, h)
    IN IF ~room_ok(map, new_room) THEN map
       ELSE LET m1 == apply_room_to_map(map, new_room)
                m2 == IF map.rooms # <<>>
                      THEN join_rooms(m1, new_room, horizontal_first) ELSE m1
            IN [m2 EXCEPT !.rooms = Append(@, new_room)]

(***************************************************************************)
(* The world: World::new() and register_components! of main().             *)
(***************************************************************************)
EmptyWorld ==
    [ alive |-> {},
      killed |-> {},            \* entities deleted during the last frame
      overflow |-> FALSE,       \* an entity was needed and Pool had none left
      panic |-> FALSE,          \* an unwrap() or expect() failed
      \* component storages
      marker |-> EmptyStorage,              \* SimpleMarker<SerializeMe>
      serialization_helper |-> EmptyStorage,
      position |-> EmptyStorage,
      player |-> {},
      monster |-> {},
      name |-> EmptyStorage,
      blocks_tile |-> {},
      combat_stats |-> EmptyStorage,
      wants_to_melee |-> EmptyStorage,
      suffer_damage |-> EmptyStorage,
      item |-> {},
      wants_to_pickup |-> EmptyStorage,
      in_backpack |-> EmptyStorage,
      wants_to_use |-> EmptyStorage,
      wants_to_drop |-> EmptyStorage,
      wants_to_remove |-> EmptyStorage,
      consumable |-> {},
      ranged |-> EmptyStorage,
      inflicts_damage |-> EmptyStorage,
      equippable |-> EmptyStorage,
      equipped |-> EmptyStorage,
      melee_power_bonus |-> EmptyStorage,
      defense_bonus |-> EmptyStorage,
      \* resources
      player_entity |-> NoEntity,
      run_state |-> [name |-> "MainMenu", menu_selection |-> "NewGame"],
      point |-> [x |-> 0, y |-> 0],
      gamelog |-> <<>>,
      map |-> new_map_rooms_and_corridors(1) ]

\* Every entity some component value or the occupancy index refers to.  (The
\* player Entity resource is rewritten by game_over_cleanup and load_game
\* before anything reads it again.)
Referenced(w) ==
    {w.wants_to_melee[e].target : e \in DOMAIN w.wants_to_melee}
    \cup {w.in_backpack[e].owner : e \in DOMAIN w.in_backpack}
    \cup {w.equipped[e].owner : e \in DOMAIN w.equipped}
    \cup {w.wants_to_pickup[e].collected_by : e \in DOMAIN w.wants_to_pickup}
    \cup {w.wants_to_pickup[e].item : e \in DOMAIN w.wants_to_pickup}
    \cup {w.wants_to_use[e].item : e \in DOMAIN w.wants_to_use}
    \cup {w.wants_to_drop[e].item : e \in DOMAIN w.wants_to_drop}
    \cup {w.wants_to_remove[e].item : e \in DOMAIN w.wants_to_remove}
    \cup UNION {SeqToSet(w.map.tile_content[i]) : i \in DOMAIN w.map.tile_content}

FreeIds(w) == Pool \ (w.alive \cup Referenced(w))

\* The identifier the next created entity gets (NoEntity: none is left).
NewId(w) == IF FreeIds(w) = {} THEN NoEntity ELSE Min(FreeIds(w))

\* The next marker identifier of the SimpleMarkerAllocator.
NewMarker(w) ==
    Min({m \in 1..(MaxEntities + 2) : \A e \in DOMAIN w.marker : w.marker[e] # m})

\* ecs.create_entity(): entity e becomes alive.
create_entity(w, e) ==
    [w EXCEPT !.alive = @ \cup {e}, !.overflow = @ \/ (e = NoEntity)]

\* .marked::<SimpleMarker<SerializeMe>>()
marked(w, e) == [w EXCEPT !.marker = Insert(@, e, NewMarker(w))]

\* World::delete_entities: the entities and all their components go at once.
delete_entities(w, S) ==
    [w EXCEPT !.alive = @ \ S,
              !.killed = @ \cup S,
              !.marker = Drop(@, S),
              !.serialization_helper = Drop(@, S),
              !.position = Drop(@, S),
              !.player = @ \ S,
              !.monster = @ \ S,
              !.name = Drop(@, S),
              !.blocks_tile = @ \ S,
              !.combat_stats = Drop(@, S),
              !.wants_to_melee = Drop(@, S),
              !.suffer_damage = Drop(@, S),
              !.item = @ \ S,
              !.wants_to_pickup = Drop(@, S),
              !.in_backpack = Drop(@, S),
              !.wants_to_use = Drop(@, S),
              !.wants_to_drop = Drop(@, S),
              !.wants_to_remove = Drop(@, S),
              !.consumable = @ \ S,
              !.ranged = Drop(@, S),
              !.inflicts_damage = Drop(@, S),
              !.equippable = Drop(@, S),
              !.equipped = Drop(@, S),
              !.melee_power_bonus = Drop(@, S),
              !.defense_bonus = Drop(@, S)]

\* C21 mutant: the line goes to the end of the log.
log_insert_at_end(w, line) == [w EXCEPT !.gamelog = Append(@, line)]

\* log.entries.insert(0, line)
log_insert(w, line) == [w EXCEPT !.gamelog = <<line>> \o @]

(***************************************************************************)
(* Spawner (spawner.rs).                                                   *)
(***************************************************************************)
PlayerStats == [max_hp |-> 7, hp |-> 7, defense |-> 1, power |-> 2]

Goblin ==
    [kind |-> "monster", name |-> "Goblin",
     stats |-> [max_hp |-> 2, hp |-> 2, defense |-> 0, power |-> 1]]

Orc ==
    [kind |-> "monster", name |-> "Orc",
     stats |-> [max_hp |-> 4, hp |-> 4, defense |-> 2, power |-> 6]]

Dagger == [kind |-> "item", name |-> "Dagger", slot |-> "Melee", power |-> 2]

Shield == [kind |-> "item", name |-> "Shield", slot |-> "Shield", defense |-> 1]

\* spawner::magic_missile_scroll: Consumable, Ranged, InflictsDamage.
MagicMissileScroll ==
    [kind |-> "item", name |-> "Magic Missile Scroll", slot |-> "None",
     range |-> 2, damage |-> 4]

\* What the random rolls put into the rooms but room 0: the rooms left of
\* the start room get the first kind of a pair, those right of it the
\* second.
SpawnPairs ==
    { <<Orc, Orc>>, <<Goblin, Orc>>, <<Dagger, Shield>> }

Rolls(pair) ==
    [k \in 2..Len(RoomXs) |-> IF RoomXs[k] < StartX THEN pair[1] ELSE pair[2]]

SpawnRolls == {Rolls(pair) : pair \in SpawnPairs}

\* The rolls of the sessions that use, drop and remove items.
ItemPairs ==
    { <<Dagger, Shield>>, <<MagicMissileScroll, Orc>>,
      <<MagicMissileScroll, Dagger>> }

ItemRolls == {Rolls(pair) : pair \in ItemPairs}

\* The rolls while a save file exists: one pair, so that the worlds of the
\* game and the worlds of the file do not multiply.
RestartRolls == {Rolls(<<Orc, Orc>>)}

\* spawner::player
player(w, player_x, player_y) ==
    LET e == NewId(w)
        w1 == marked(create_entity(w, e), e)
    IN [w1 EXCEPT !.position = Insert(@, e, [x |-> player_x, y |-> player_y]),
                  !.player = @ \cup {e},
                  !.name = Insert(@, e, "Player"),
                  !.combat_stats = Insert(@, e, PlayerStats)]

monster(w, x, y, k) ==
    LET e == NewId(w)
        w1 == marked(create_entity(w, e), e)
    IN [w1 EXCEPT !.position = Insert(@, e, [x |-> x, y |-> y]),
                  !.monster = @ \cup {e},
                  !.name = Insert(@, e, k.name),
                  !.blocks_tile = @ \cup {e},
                  !.combat_stats = Insert(@, e, k.stats)]

item(w, x, y, k) ==
    LET e == NewId(w)
        w1 == marked(create_entity(w, e), e)
        w2 == [w1 EXCEPT !.position = Insert(@, e, [x |-> x, y |-> y]),
                         !.name = Insert(@, e, k.name),
                         !.item = @ \cup {e}]
        w3 == [w2 EXCEPT !.equippable = Insert(@, e, [slot |-> k.slot])]
    IN CASE k.slot = "Melee" ->
              [w3 EXCEPT !.melee_power_bonus = Insert(@, e, [power |-> k.power])]
         [] k.slot = "Shield" ->
              [w3 EXCEPT !.defense_bonus = Insert(@, e, [defense |-> k.defense])]
         [] OTHER ->
              [w2 EXCEPT !.consumable = @ \cup {e},
                         !.ranged = Insert(@, e, [range |-> k.range]),
                         !.inflicts_damage =
                            Insert(@, e, [damage |-> k.damage])]

\* spawner::spawn_room: what the roll says, at the room's center.
spawn_room(w, room, roll) ==
    LET c == center(room)
    IN CASE roll.kind = "monster" -> monster(w, c.x, c.y, roll)
         [] roll.kind = "item" -> item(w, c.x, c.y, roll)
         [] OTHER -> w

\* for room in map.rooms.iter().skip(1) { spawner::spawn_room(..) }
RECURSIVE spawn_rooms(_, _, _, _)
spawn_rooms(w, rooms, rolls, k) ==
    IF k > Len(rooms) THEN w
    ELSE spawn_rooms(spawn_room(w, rooms[k], rolls[k]), rooms, rolls, k + 1)

(***************************************************************************)
(* main(): the world handed to the main loop.                              *)
(***************************************************************************)
main(rolls) ==
    LET map == new_map_rooms_and_corridors(1)
        p == center(map.rooms[1])
        w1 == player(EmptyWorld, p.x, p.y)
        w2 == [w1 EXCEPT !.player_entity = Min(w1.player),
                         !.run_state = [name |-> "MainMenu",
                                        menu_selection |-> "NewGame"],
                         !.point = p,
                         !.gamelog = <<"Welcome to my game">>]
        w3 == spawn_rooms(w2, map.rooms, rolls, 2)
    IN [w3 EXCEPT !.map = map]

(***************************************************************************)
(* Map: exits (map.rs) and the map indexing system.                        *)
(***************************************************************************)
\* C24 mutant: a tile within the bounds is an exit, blocked or not.
is_exit_valid_ignoring_blocked(map, x, y) ==
    ~(x < 1 \/ x > map.width - 1 \/ y < 1 \/ y > map.height - 1)

is_exit_valid(map, x, y) ==
    IF x < 1 \/ x > map.width - 1 \/ y < 1 \/ y > map.height - 1
    THEN FALSE
    ELSE ~map.blocked[xy_idx(map, x, y)]

\* The exits of tile idx as <<tile, cost>>, the cost in hundredths.
get_available_exits(map, idx) ==
    LET x == idx % map.width
        y == idx \div map.width
        exit(ok, to, cost) == IF ok THEN <<(<<to, cost>>)>> ELSE <<>>
    IN exit(is_exit_valid(map, x - 1, y), idx - 1, 100)
       \o exit(is_exit_valid(map, x + 1, y), idx + 1, 100)
       \o exit(is_exit_valid(map, x, y - 1), idx - map.width, 100)
       \o exit(is_exit_valid(map, x, y + 1), idx + map.width, 100)
       \o exit(is_exit_valid(map, x - 1, y - 1), (idx - map.width) - 1, 145)
       \o exit(is_exit_valid(map, x + 1, y - 1), (idx - map.width) + 1, 145)
       \o exit(is_exit_valid(map, x - 1, y + 1), (idx + map.width) - 1, 145)
       \o exit(is_exit_valid(map, x + 1, y + 1), (idx + map.width) + 1, 145)

populate_blocked(map) ==
    [map EXCEPT !.blocked = [i \in DOMAIN map.tiles |-> map.tiles[i] = "Wall"]]

clear_content_index(map) ==
    [map EXCEPT !.tile_content = [i \in DOMAIN map.tile_content |-> <<>>]]

RECURSIVE index_entities(_, _, _)
index_entities(w, map, S) ==
    IF S = {} THEN map
    ELSE LET e == Min(S)
             idx == xy_idx(map, w.position[e].x, w.position[e].y)
             m1 == IF e \in w.blocks_tile
                   THEN [map EXCEPT !.blocked[idx] = TRUE] ELSE map
         IN index_entities(w, [m1 EXCEPT !.tile_content[idx] = Append(@, e)],
                           S \ {e})

MapIndexingSystem(w) ==
    [w EXCEPT !.map = index_entities(w,
                        clear_content_index(populate_blocked(w.map)),
                        w.alive \cap DOMAIN w.position)]

(***************************************************************************)
(* Monster AI (monster_ai_system.rs).                                      *)
(***************************************************************************)
\* The range of every Viewshed the spawner attaches.
ViewRange == 8

Dist2(a, b) == ((a.x - b.x) * (a.x - b.x)) + ((a.y - b.y) * (a.y - b.y))

\* The level has no wall between two floor tiles: a viewshed holds every
\* tile within its range.
InViewshed(w, e, pt) == Dist2(w.position[e], pt) <= ViewRange * ViewRange

\* More than any path on the map costs.
Unreachable == (MapWidth * MapHeight * 145) + 1

\* PathCosts(exits, goal, k)[i]: the cost of the cheapest path of at most k
\* steps from tile i to goal.
RECURSIVE PathCosts(_, _, _)
PathCosts(exits, goal, k) ==
    IF k = 0
    THEN [i \in DOMAIN exits |-> IF i = goal THEN 0 ELSE Unreachable]
    ELSE LET prev == PathCosts(exits, goal, k - 1)
         IN [i \in DOMAIN exits |->
                IF i = goal THEN 0
                ELSE LET ex == exits[i]
                         via == {ex[n][2] + prev[ex[n][1]] : n \in 1..Len(ex)}
                     IN IF via = {} \/ Min(via) >= Unreachable
                        THEN Unreachable ELSE Min(via)]

\* a_star_search(from, goal): the second tile of a cheapest path, or from
\* itself when there is no path.
a_star_step(map, from, goal) ==
    LET exits == [i \in DOMAIN map.tiles |-> get_available_exits(map, i)]
        cost == PathCosts(exits, goal, Cardinality(DOMAIN map.tiles))
        ex == exits[from]
        total(k) == ex[k][2] + cost[ex[k][1]]
        best == {k \in 1..Len(ex) :
                    /\ cost[ex[k][1]] < Unreachable
                    /\ \A j \in 1..Len(ex) : total(k) <= total(j)}
    IN IF best = {} THEN from ELSE ex[Min(best)][1]

monster_turn(w, e) ==
    LET pos == w.position[e]
    IN IF ~InViewshed(w, e, w.point) THEN w
       ELSE IF 4 * Dist2(pos, w.point) < 9      \* distance < 1.5
       THEN [w EXCEPT !.wants_to_melee =
                         Insert(@, e, [target |-> w.player_entity])]
       ELSE LET from == xy_idx(w.map, pos.x, pos.y)
                goal == xy_idx(w.map, w.point.x, w.point.y)
                to == a_star_step(w.map, from, goal)
            IN IF to = from THEN w
               ELSE [w EXCEPT !.position[e] = [x |-> to % w.map.width,
                                               y |-> to \div w.map.width],
                              !.map.blocked[from] = FALSE,
                              !.map.blocked[to] = TRUE]

RECURSIVE monsters_act(_, _)
monsters_act(w, S) ==
    IF S = {} THEN w
    ELSE LET e == Min(S) IN monsters_act(monster_turn(w, e), S \ {e})

MonsterAI(w) ==
    IF w.run_state.name # "MonsterTurn" THEN w
    ELSE monsters_act(w, w.alive \cap w.monster \cap DOMAIN w.name
                            \cap DOMAIN w.position)

(***************************************************************************)
(* Melee combat (melee_combat_system.rs).                                  *)
(***************************************************************************)
\* C1 mutant: the bonus of every equipped weapon, whoever wears it.
offensive_bonus_of_anyone(w, owner) ==
    SumOf([i \in DOMAIN w.melee_power_bonus |-> w.melee_power_bonus[i].power],
          w.alive \cap DOMAIN w.melee_power_bonus \cap DOMAIN w.equipped)

\* The sum of MeleePowerBonus.power over the items equipped by owner.
offensive_bonus(w, owner) ==
    SumOf([i \in DOMAIN w.melee_power_bonus |-> w.melee_power_bonus[i].power],
          {i \in w.alive \cap DOMAIN w.melee_power_bonus \cap DOMAIN w.equipped :
              w.equipped[i].owner = owner})

\* The sum of DefenseBonus.defense over the items equipped by owner.
defensive_bonus(w, owner) ==
    SumOf([i \in DOMAIN w.defense_bonus |-> w.defense_bonus[i].defense],
          {i \in w.alive \cap DOMAIN w.defense_bonus \cap DOMAIN w.equipped :
              w.equipped[i].owner = owner})

\* i32::max(0, (stats.power + offensive_bonus)
\*             - (target_stats.defense + defensive_bonus))
melee_damage(w, entity, target) ==
    Max2(0, (w.combat_stats[entity].power + offensive_bonus(w, entity))
            - (w.combat_stats[target].defense + defensive_bonus(w, target)))

UnableToHurt(attacker, target) == attacker \o " is unable to hurt " \o target

Hits(attacker, target, damage) ==
    attacker \o " hits " \o target \o ", for " \o ToString(damage) \o " hp."

\* inflict_damage.insert(target, SufferDamage { amount: damage })
inflict_damage(storage, target, damage) ==
    Insert(storage, target, [amount |-> damage])

\* C23 mutant: the hp of the attacker and of the target are not looked at.
melee_attack_whatever_the_hp(w, entity) ==
    LET target == w.wants_to_melee[entity].target
    IN IF w.panic THEN w
       ELSE IF target \notin DOMAIN w.combat_stats
       THEN [w EXCEPT !.panic = TRUE]
       ELSE IF target \notin DOMAIN w.name
       THEN [w EXCEPT !.panic = TRUE]
       ELSE LET damage == melee_damage(w, entity, target)
            IN IF damage = 0
               THEN log_insert(w, UnableToHurt(w.name[entity], w.name[target]))
               ELSE [log_insert(w, Hits(w.name[entity], w.name[target], damage))
                        EXCEPT !.suffer_damage =
                                  inflict_damage(@, target, damage)]

\* C2 mutant: the zero-damage branch is missing.
melee_attack_without_zero_branch(w, entity) ==
    LET target == w.wants_to_melee[entity].target
    IN IF w.panic \/ ~(w.combat_stats[entity].hp > 0) THEN w
       ELSE IF target \notin DOMAIN w.combat_stats
       THEN [w EXCEPT !.panic = TRUE]
       ELSE IF ~(w.combat_stats[target].hp > 0) THEN w
       ELSE IF target \notin DOMAIN w.name
       THEN [w EXCEPT !.panic = TRUE]
       ELSE LET damage == melee_damage(w, entity, target)
            IN [log_insert(w, Hits(w.name[entity], w.name[target], damage))
                   EXCEPT !.suffer_damage = inflict_damage(@, target, damage)]

\* The body of the loop for one attacker.
melee_attack(w, entity) ==
    LET target == w.wants_to_melee[entity].target
    IN IF w.panic \/ ~(w.combat_stats[entity].hp > 0) THEN w
       ELSE IF target \notin DOMAIN w.combat_stats        \* unwrap() of None
       THEN [w EXCEPT !.panic = TRUE]
       ELSE IF ~(w.combat_stats[target].hp > 0) THEN w
       ELSE IF target \notin DOMAIN w.name                \* unwrap() of None
       THEN [w EXCEPT !.panic = TRUE]
       ELSE LET damage == melee_damage(w, entity, target)
            IN IF damage = 0
               THEN log_insert(w, UnableToHurt(w.name[entity], w.name[target]))
               ELSE [log_insert(w, Hits(w.name[entity], w.name[target], damage))
                        EXCEPT !.suffer_damage =
                                  inflict_damage(@, target, damage)]

\* The entities the melee join visits.
MeleeJoin(w) ==
    w.alive \cap DOMAIN w.wants_to_melee \cap DOMAIN w.name
            \cap DOMAIN w.combat_stats

RECURSIVE melee_loop(_, _)
melee_loop(w, S) ==
    IF S = {} THEN w
    ELSE LET e == Min(S) IN melee_loop(melee_attack(w, e), S \ {e})

\* C22 and C30 mutant: the intents are left in place at the end of the pass.
MeleeCombatSystem_keeping_intents(w) == melee_loop(w, MeleeJoin(w))

MeleeCombatSystem(w) ==
    LET w1 == melee_loop(w, MeleeJoin(w))
    IN IF w1.panic THEN w1 ELSE [w1 EXCEPT !.wants_to_melee = EmptyStorage]

(***************************************************************************)
(* Damage (damage_system.rs).                                              *)
(***************************************************************************)
apply_damage(w, entity) ==
    LET w1 == [w EXCEPT !.combat_stats[entity].hp =
                           @ - w.suffer_damage[entity].amount]
    IN IF entity \in DOMAIN w.position
       THEN [w1 EXCEPT !.map.bloodstains =
                          @ \cup {xy_idx(w.map, w.position[entity].x,
                                         w.position[entity].y)}]
       ELSE w1

RECURSIVE damage_loop(_, _)
damage_loop(w, S) ==
    IF S = {} THEN w
    ELSE LET e == Min(S) IN damage_loop(apply_damage(w, e), S \ {e})

DamageSystem(w) ==
    LET w1 == damage_loop(w, w.alive \cap DOMAIN w.combat_stats
                                    \cap DOMAIN w.suffer_damage)
    IN [w1 EXCEPT !.suffer_damage = EmptyStorage]

IsDead(name) == name \o " is dead"

\* C4 mutant: the sweep tests hp < 0.
sweep_entity_below_zero(acc, entity) ==
    LET w == acc.w
    IN IF ~(w.combat_stats[entity].hp < 0) THEN acc
       ELSE IF entity \notin w.player
       THEN [w |-> IF entity \in DOMAIN w.name
                   THEN log_insert(w, IsDead(w.name[entity])) ELSE w,
             dead |-> acc.dead \cup {entity}]
       ELSE [acc EXCEPT !.w.run_state = [name |-> "GameOver"]]

\* C5 and C27 mutant: the sweep treats the player like every other entity.
sweep_entity_player_too(acc, entity) ==
    LET w == acc.w
    IN IF ~(w.combat_stats[entity].hp < 1) THEN acc
       ELSE [w |-> IF entity \in DOMAIN w.name
                   THEN log_insert(w, IsDead(w.name[entity])) ELSE w,
             dead |-> acc.dead \cup {entity}]

\* One step of the sweep: acc is the world and the list of the dead.
sweep_entity(acc, entity) ==
    LET w == acc.w
    IN IF ~(w.combat_stats[entity].hp < 1) THEN acc
       ELSE IF entity \notin w.player
       THEN [w |-> IF entity \in DOMAIN w.name
                   THEN log_insert(w, IsDead(w.name[entity])) ELSE w,
             dead |-> acc.dead \cup {entity}]
       ELSE [acc EXCEPT !.w.run_state = [name |-> "GameOver"]]

RECURSIVE sweep_loop(_, _)
sweep_loop(acc, S) ==
    IF S = {} THEN acc
    ELSE LET e == Min(S) IN sweep_loop(sweep_entity(acc, e), S \ {e})

delete_the_dead(w) ==
    LET acc == sweep_loop([w |-> w, dead |-> {}],
                          w.alive \cap DOMAIN w.combat_stats)
    IN delete_entities(acc.w, acc.dead)

(***************************************************************************)
(* Inventory systems (inventory_system.rs).                                *)
(***************************************************************************)
YouPickUp(name) == "You pick up the " \o name \o "."
YouEquip(name) == "You equip the " \o name \o "."
YouUnequip(name) == "You unequip the " \o name \o "."

collect(w, entity) ==
    LET pickup == w.wants_to_pickup[entity]
        w1 == [w EXCEPT !.position = Drop(@, {pickup.item}),
                        !.in_backpack =
                            Insert(@, pickup.item,
                                   [owner |-> pickup.collected_by])]
    IN IF pickup.collected_by = w.player_entity
       THEN log_insert(w1, YouPickUp(w.name[pickup.item]))
       ELSE w1

RECURSIVE collect_loop(_, _)
collect_loop(w, S) ==
    IF S = {} THEN w
    ELSE LET e == Min(S) IN collect_loop(collect(w, e), S \ {e})

ItemCollectionSystem(w) ==
    [collect_loop(w, w.alive \cap DOMAIN w.wants_to_pickup)
        EXCEPT !.wants_to_pickup = EmptyStorage]

\* The item leaves its slot and goes back to the backpack of its wearer.
unequip(w, entity, worn) ==
    LET w1 == [w EXCEPT !.equipped = Drop(@, {worn}),
                        !.in_backpack = Insert(@, worn, [owner |-> entity])]
    IN IF entity = w.player_entity
       THEN log_insert(w1, YouUnequip(w.name[worn]))
       ELSE w1

RECURSIVE unequip_loop(_, _, _)
unequip_loop(w, entity, S) ==
    IF S = {} THEN w
    ELSE LET e == Min(S) IN unequip_loop(unequip(w, entity, e), entity, S \ {e})

\* The Equippable part of a use: the item takes its slot.
equip(w, entity, used) ==
    LET slot == w.equippable[used].slot
        worn == {i \in w.alive \cap DOMAIN w.equipped :
                    /\ w.equipped[i].owner = entity
                    /\ w.equipped[i].slot = slot}
        w1 == unequip_loop(w, entity, worn)
        w2 == [w1 EXCEPT !.equipped =
                            Insert(@, used, [owner |-> entity,
                                             slot |-> slot]),
                         !.in_backpack = Drop(@, {used})]
    IN IF entity = w.player_entity
       THEN log_insert(w2, YouEquip(w.name[used]))
       ELSE w2

ItHits(name, n) ==
    "It hits " \o name \o ", for " \o ToString(n) \o " hp."

\* The InflictsDamage part of a use: every entity of the sequence mobs
\* suffers the damage.
RECURSIVE inflict(_, _, _, _)
inflict(w, entity, damage, mobs) ==
    IF mobs = <<>> THEN w
    ELSE LET mob == Head(mobs)
             w1 == [w EXCEPT !.suffer_damage =
                                Insert(@, mob, [amount |-> damage])]
             w2 == IF entity = w.player_entity /\ mob \in DOMAIN w.name
                   THEN log_insert(w1, ItHits(w.name[mob], damage))
                   ELSE w1
         IN inflict(w2, entity, damage, Tail(mobs))

\* The entities on the tiles a use affects: those of the target point (no
\* item of the model has an AreaOfEffect).
targets(w, target) ==
    IF target = <<>> THEN <<>>
    ELSE w.map.tile_content[xy_idx(w.map, target[1].x, target[1].y)]

use_item(w, entity) ==
    LET used == w.wants_to_use[entity].item
        w1 == IF used \in DOMAIN w.equippable THEN equip(w, entity, used)
              ELSE w
        w2 == IF used \in DOMAIN w.inflicts_damage
              THEN inflict(w1, entity, w.inflicts_damage[used].damage,
                           targets(w, w.wants_to_use[entity].target))
              ELSE w1
    IN IF used \in w.consumable THEN delete_entities(w2, {used}) ELSE w2

RECURSIVE use_loop(_, _)
use_loop(w, S) ==
    IF S = {} THEN w
    ELSE LET e == Min(S) IN use_loop(use_item(w, e), S \ {e})

ItemUseSystem(w) ==
    [use_loop(w, w.alive \cap DOMAIN w.wants_to_use)
        EXCEPT !.wants_to_use = EmptyStorage]

YouDrop(name) == "You drop the " \o name \o "."

drop(w, entity) ==
    LET to_drop == w.wants_to_drop[entity].item
        w1 == [w EXCEPT !.position = Insert(@, to_drop, w.position[entity]),
                        !.in_backpack = Drop(@, {to_drop})]
    IN IF entity = w.player_entity
       THEN log_insert(w1, YouDrop(w.name[to_drop]))
       ELSE w1

RECURSIVE drop_loop(_, _)
drop_loop(w, S) ==
    IF S = {} THEN w
    ELSE LET e == Min(S) IN drop_loop(drop(w, e), S \ {e})

ItemDropSystem(w) ==
    [drop_loop(w, w.alive \cap DOMAIN w.wants_to_drop
                          \cap DOMAIN w.position)
        EXCEPT !.wants_to_drop = EmptyStorage]

remove(w, entity) ==
    LET to_remove == w.wants_to_remove[entity].item
    IN log_insert([w EXCEPT !.equipped = Drop(@, {to_remove}),
                            !.in_backpack =
                               Insert(@, to_remove, [owner |-> entity])],
                  YouUnequip(w.name[to_remove]))

RECURSIVE remove_loop(_, _)
remove_loop(w, S) ==
    IF S = {} THEN w
    ELSE LET e == Min(S) IN remove_loop(remove(w, e), S \ {e})

ItemRemoveSystem(w) ==
    [remove_loop(w, w.alive \cap DOMAIN w.wants_to_remove)
        EXCEPT !.wants_to_remove = EmptyStorage]

(***************************************************************************)
(* State::run_systems (main.rs).  The visibility system only fills the     *)
(* viewsheds, which InViewshed computes where they are read.               *)
(***************************************************************************)
\* C14 mutant: the batch is run a second time in the same frame.
run_systems_twice(w) ==
    LET batch(v) ==
            LET v1 == MeleeCombatSystem(MapIndexingSystem(MonsterAI(v)))
            IN IF v1.panic THEN v1
               ELSE ItemRemoveSystem(ItemDropSystem(ItemUseSystem(
                        ItemCollectionSystem(DamageSystem(v1)))))
    IN batch(batch(w))

run_systems(w) ==
    LET w1 == MeleeCombatSystem(MapIndexingSystem(MonsterAI(w)))
    IN IF w1.panic THEN w1
       ELSE ItemRemoveSystem(ItemDropSystem(ItemUseSystem(
                ItemCollectionSystem(DamageSystem(w1)))))

(***************************************************************************)
(* Player input (player.rs).                                               *)
(***************************************************************************)
NothingHere == "There is nothing here to pick up."

InMap(map, x, y) == x >= 0 /\ x < map.width /\ y >= 0 /\ y < map.height

\* The first entity the occupancy index lists on tile idx that blocks the
\* tile and has combat stats (NoEntity: there is none).
bump_target(w, idx) ==
    LET content == w.map.tile_content[idx]
        hits == {k \in 1..Len(content) :
                    /\ content[k] \in w.blocks_tile
                    /\ content[k] \in DOMAIN w.combat_stats}
    IN IF hits = {} THEN NoEntity ELSE content[Min(hits)]

try_move(w, entity, delta_x, delta_y) ==
    LET pos == w.position[entity]
        x == pos.x + delta_x
        y == pos.y + delta_y
        idx == xy_idx(w.map, x, y)
    IN IF ~InMap(w.map, x, y) THEN w
       ELSE IF bump_target(w, idx) # NoEntity
       THEN [w EXCEPT !.wants_to_melee =
                         Insert(@, entity, [target |-> bump_target(w, idx)])]
       ELSE IF ~w.map.blocked[idx]
       THEN [w EXCEPT !.position[entity] = [x |-> x, y |-> y],
                      !.point = [x |-> x, y |-> y]]
       ELSE w

RECURSIVE try_move_loop(_, _, _, _)
try_move_loop(w, S, delta_x, delta_y) ==
    IF S = {} THEN w
    ELSE LET e == Min(S)
         IN try_move_loop(try_move(w, e, delta_x, delta_y), S \ {e},
                          delta_x, delta_y)

try_move_player(w, delta_x, delta_y) ==
    try_move_loop(w, w.alive \cap w.player \cap DOMAIN w.position,
                  delta_x, delta_y)

get_item(w) ==
    LET here == {i \in w.alive \cap w.item \cap DOMAIN w.position :
                    w.position[i] = w.point}
    IN IF here = {} THEN log_insert(w, NothingHere)
       ELSE [w EXCEPT !.wants_to_pickup =
                         Insert(@, w.player_entity,
                                [collected_by |-> w.player_entity,
                                 item |-> CHOOSE i \in here :
                                             \A j \in here : j <= i])]

Keys == {"Left", "Right", "Up", "Down", "Get", "Inventory", "Save",
         "Descend", "None"}

\* The keys of the sessions that use, drop and remove items.
ItemKeys == {"Left", "Right", "Up", "Down", "Get", "Inventory", "Drop",
             "Remove", "Descend", "None"}

\* player_input: the world after the key, and the run-state it returns.
player_input(w, key) ==
    CASE key = "Left" ->
            [w |-> try_move_player(w, -1, 0), next |-> [name |-> "PlayerTurn"]]
      [] key = "Right" ->
            [w |-> try_move_player(w, 1, 0), next |-> [name |-> "PlayerTurn"]]
      [] key = "Up" ->
            [w |-> try_move_player(w, 0, -1), next |-> [name |-> "PlayerTurn"]]
      [] key = "Down" ->
            [w |-> try_move_player(w, 0, 1), next |-> [name |-> "PlayerTurn"]]
      [] key = "Get" ->
            [w |-> get_item(w), next |-> [name |-> "PlayerTurn"]]
      [] key = "Inventory" -> [w |-> w, next |-> [name |-> "ShowInventory"]]
      [] key = "Drop" -> [w |-> w, next |-> [name |-> "ShowDropItem"]]
      [] key = "Remove" -> [w |-> w, next |-> [name |-> "ShowRemoveItem"]]
      [] key = "Save" -> [w |-> w, next |-> [name |-> "SaveGame"]]
      [] key = "Descend" -> [w |-> w, next |-> [name |-> "NextLevel"]]
      [] OTHER -> [w |-> w, next |-> [name |-> "AwaitingInput"]]

(***************************************************************************)
(* Level transition and game-over cleanup (main.rs).                       *)
(***************************************************************************)
\* C6 mutant: equipped items are not kept.
entities_to_remove_without_equipped(w) ==
    {entity \in w.alive :
        /\ entity \notin w.player
        /\ ~(entity \in DOMAIN w.in_backpack
              /\ w.in_backpack[entity].owner = w.player_entity)}

entities_to_remove_on_level_change(w) ==
    {entity \in w.alive :
        /\ entity \notin w.player
        /\ ~(entity \in DOMAIN w.in_backpack
              /\ w.in_backpack[entity].owner = w.player_entity)
        /\ ~(entity \in DOMAIN w.equipped
              /\ w.equipped[entity].owner = w.player_entity)}

Descend == "You descend to the next level, and take a moment to heal."

\* C7 mutant: the half of max_hp is rounded up.
level_heal_rounding_up(stats) ==
    [stats EXCEPT !.hp = Max2(stats.hp, Div(stats.max_hp + 1, 2))]

\* i32::max(player_health.hp, player_health.max_hp / 2)
level_heal(stats) == [stats EXCEPT !.hp = Max2(stats.hp, Div(stats.max_hp, 2))]

\* C28 mutant: the Point is moved to the start room, the Position is not.
goto_next_level_keeping_position(w, rolls) ==
    LET w1 == delete_entities(w, entities_to_remove_on_level_change(w))
        current_depth == w1.map.depth
        worldmap == new_map_rooms_and_corridors(current_depth + 1)
        w2 == spawn_rooms([w1 EXCEPT !.map = worldmap], worldmap.rooms, rolls, 2)
        p == center(worldmap.rooms[1])
        w5 == log_insert([w2 EXCEPT !.point = p], Descend)
    IN IF w5.player_entity \in DOMAIN w5.combat_stats
       THEN [w5 EXCEPT !.combat_stats[w5.player_entity] = level_heal(@)]
       ELSE w5

goto_next_level(w, rolls) ==
    LET w1 == delete_entities(w, entities_to_remove_on_level_change(w))
        current_depth == w1.map.depth
        worldmap == new_map_rooms_and_corridors(current_depth + 1)
        w2 == spawn_rooms([w1 EXCEPT !.map = worldmap], worldmap.rooms, rolls, 2)
        p == center(worldmap.rooms[1])
        w3 == [w2 EXCEPT !.point = p]
        w4 == IF w3.player_entity \in DOMAIN w3.position
              THEN [w3 EXCEPT !.position[w3.player_entity] = p] ELSE w3
        w5 == log_insert(w4, Descend)
    IN IF w5.player_entity \in DOMAIN w5.combat_stats
       THEN [w5 EXCEPT !.combat_stats[w5.player_entity] = level_heal(@)]
       ELSE w5

\* C13 mutant: the entities of the old game are not deleted.
game_over_cleanup_keeping_entities(w, rolls) ==
    LET worldmap == new_map_rooms_and_corridors(1)
        w2 == spawn_rooms([w EXCEPT !.map = worldmap], worldmap.rooms, rolls, 2)
        p == center(worldmap.rooms[1])
        player_entity == NewId(w2)
        w3 == player(w2, p.x, p.y)
    IN [w3 EXCEPT !.point = p, !.player_entity = player_entity]

\* C19 mutant: the dead player is kept and no new one is made.
game_over_cleanup_keeping_player(w, rolls) ==
    LET w1 == delete_entities(w, w.alive \ w.player)
        worldmap == new_map_rooms_and_corridors(1)
        w2 == spawn_rooms([w1 EXCEPT !.map = worldmap], worldmap.rooms, rolls, 2)
        p == center(worldmap.rooms[1])
    IN [w2 EXCEPT !.point = p]

game_over_cleanup(w, rolls) ==
    LET w1 == delete_entities(w, w.alive)
        worldmap == new_map_rooms_and_corridors(1)
        w2 == spawn_rooms([w1 EXCEPT !.map = worldmap], worldmap.rooms, rolls, 2)
        p == center(worldmap.rooms[1])
        player_entity == NewId(w2)
        w3 == player(w2, p.x, p.y)
    IN [w3 EXCEPT !.point = p, !.player_entity = player_entity]

(***************************************************************************)
(* Save and load (saveload_system.rs).                                     *)
(***************************************************************************)
\* The component types of serialize_individually! and
\* deserialize_individually!, in their order.
FileOrder ==
    << "position", "player", "monster", "name", "blocks_tile", "combat_stats",
       "suffer_damage", "wants_to_melee", "item", "consumable", "ranged",
       "inflicts_damage", "in_backpack", "wants_to_pickup", "wants_to_use",
       "wants_to_drop", "serialization_helper", "equippable", "equipped",
       "melee_power_bonus", "defense_bonus", "wants_to_remove" >>

\* The component types without data.
Markers == {"player", "monster", "blocks_tile", "item", "consumable"}

Has(w, c, e) == IF c \in Markers THEN e \in w[c] ELSE e \in DOMAIN w[c]

Get(w, c, e) == IF c \in Markers THEN "{}" ELSE w[c][e]

\* The entity-valued fields of each component type.
EntityFields(c) ==
    CASE c = "wants_to_melee" -> {"target"}
      [] c = "in_backpack" -> {"owner"}
      [] c = "equipped" -> {"owner"}
      [] c = "wants_to_pickup" -> {"collected_by", "item"}
      [] c = "wants_to_use" -> {"item"}
      [] c = "wants_to_drop" -> {"item"}
      [] c = "wants_to_remove" -> {"item"}
      [] OTHER -> {}

SortedFields(c) ==
    CASE c = "wants_to_pickup" -> <<"collected_by", "item">>
      [] OTHER -> SortedSeqOfOne(EntityFields(c))

\* The Map as serde writes it: tile_content is skipped.
map_to_file(map) == [f \in (DOMAIN map) \ {"tile_content"} |-> map[f]]

\* ConvertSaveload::convert_into: entities become their markers
\* (NoEntity: the entity has no marker, and serialize fails).
convert_into(w, c, v) ==
    IF c = "serialization_helper"
    THEN [map |-> map_to_file(v.map), game_log |-> v.game_log]
    ELSE IF EntityFields(c) = {} THEN v
    ELSE [f \in DOMAIN v |->
            IF f \in EntityFields(c)
            THEN IF v[f] \in DOMAIN w.marker THEN w.marker[v[f]] ELSE NoEntity
            ELSE v[f]]

\* SerializeComponents::serialize of one storage: a (marker, data) pair for
\* every marked entity that carries the component, in join order.
RECURSIVE serialize(_, _, _)
serialize(w, c, S) ==
    IF S = {} THEN <<>>
    ELSE LET e == Min(S)
         IN (IF Has(w, c, e)
             THEN <<(<<w.marker[e], convert_into(w, c, Get(w, c, e))>>)>>
             ELSE <<>>) \o serialize(w, c, S \ {e})

\* Whether some component to be written refers to an entity without marker.
SerializeFails(w) ==
    \E c \in SeqToSet(FileOrder) :
        \E e \in w.alive \cap DOMAIN w.marker :
            /\ Has(w, c, e)
            /\ \E f \in EntityFields(c) : Get(w, c, e)[f] \notin DOMAIN w.marker

\* C15 mutant: the helper entity is not deleted after writing.
save_game_keeping_helper(w) ==
    LET savehelper == NewId(w)
        w1 == marked(create_entity(w, savehelper), savehelper)
        w2 == [w1 EXCEPT !.serialization_helper =
                            Insert(@, savehelper, [map |-> w.map,
                                                   game_log |-> w.gamelog])]
        file == [exists |-> TRUE,
                 data |-> [c \in SeqToSet(FileOrder) |->
                             serialize(w2, c, w2.alive \cap DOMAIN w2.marker)]]
    IN IF SerializeFails(w2)
       THEN [w |-> [w2 EXCEPT !.panic = TRUE], file |-> NoFile]
       ELSE [w |-> w2, file |-> file]

\* save_game: the world after it, and the file it wrote.
save_game(w) ==
    LET savehelper == NewId(w)
        w1 == marked(create_entity(w, savehelper), savehelper)
        w2 == [w1 EXCEPT !.serialization_helper =
                            Insert(@, savehelper, [map |-> w.map,
                                                   game_log |-> w.gamelog])]
        file == [exists |-> TRUE,
                 data |-> [c \in SeqToSet(FileOrder) |->
                             serialize(w2, c, w2.alive \cap DOMAIN w2.marker)]]
    IN IF SerializeFails(w2)
       THEN [w |-> [w2 EXCEPT !.panic = TRUE], file |-> NoFile]
       ELSE [w |-> delete_entities(w2, {savehelper}), file |-> file]

does_save_exist(file) == file.exists

\* The markers of one (marker, data) pair in the order deserialize meets
\* them: the pair's own, then those its entity-valued fields hold.
PairMarkers(c, pair) ==
    <<pair[1]>> \o [k \in 1..Cardinality(EntityFields(c)) |->
                      pair[2][SortedFields(c)[k]]]

RECURSIVE StorageMarkers(_, _, _)
StorageMarkers(c, pairs, k) ==
    IF k > Len(pairs) THEN <<>>
    ELSE PairMarkers(c, pairs[k]) \o StorageMarkers(c, pairs, k + 1)

RECURSIVE FileMarkers(_, _)
FileMarkers(data, k) ==
    IF k > Len(FileOrder) THEN <<>>
    ELSE StorageMarkers(FileOrder[k], data[FileOrder[k]], 1)
            \o FileMarkers(data, k + 1)

\* The positions of s that hold the first occurrence of their value.
Firsts(s) == {k \in 1..Len(s) : \A j \in 1..(k - 1) : s[j] # s[k]}

\* MarkerAllocator::retrieve_entity creates and marks an entity for every
\* marker the first time deserialize meets it: RetrievedEntities(w, data)[m]
\* is the entity of marker m, the n-th new marker getting the n-th free
\* identifier.
RetrievedEntities(w, data) ==
    LET numbered(met, firsts, free) ==
            [m \in SeqToSet(met) |->
                LET n == CHOOSE k \in 1..Len(firsts) : met[firsts[k]] = m
                IN IF n <= Len(free) THEN free[n] ELSE NoEntity]
        first_met(met) ==
            numbered(met, SortedSeq(Firsts(met)), SortedSeq(FreeIds(w)))
    IN first_met(FileMarkers(data, 1))

\* C8 mutant: the markers are taken for entities.
convert_from_without_lookup(c, v, entity_of) == v

\* ConvertSaveload::convert_from: markers become entities again.
convert_from(c, v, entity_of) ==
    IF EntityFields(c) = {} THEN v
    ELSE [f \in DOMAIN v |->
            IF f \in EntityFields(c) THEN entity_of[v[f]] ELSE v[f]]

\* DeserializeComponents::deserialize of one storage.
deserialize(c, pairs, entity_of) ==
    IF c \in Markers THEN {entity_of[pairs[k][1]] : k \in 1..Len(pairs)}
    ELSE [e \in {entity_of[pairs[k][1]] : k \in 1..Len(pairs)} |->
            LET k == CHOOSE j \in 1..Len(pairs) : entity_of[pairs[j][1]] = e
            IN convert_from(c, pairs[k][2], entity_of)]

\* deserialize_individually!: every storage of the (emptied) world is read
\* back from the file.
deserialize_individually(w, data) ==
    LET read(entity_of, created) ==
          LET st(c) == deserialize(c, data[c], entity_of)
          IN [w EXCEPT !.alive = @ \cup created,
                 !.overflow = @ \/ (NoEntity \in created),
                 !.marker = [e \in created |->
                               CHOOSE m \in DOMAIN entity_of : entity_of[m] = e],
                 !.position = st("position"),
                 !.player = st("player"),
                 !.monster = st("monster"),
                 !.name = st("name"),
                 !.blocks_tile = st("blocks_tile"),
                 !.combat_stats = st("combat_stats"),
                 !.suffer_damage = st("suffer_damage"),
                 !.wants_to_melee = st("wants_to_melee"),
                 !.item = st("item"),
                 !.consumable = st("consumable"),
                 !.ranged = st("ranged"),
                 !.inflicts_damage = st("inflicts_damage"),
                 !.in_backpack = st("in_backpack"),
                 !.wants_to_pickup = st("wants_to_pickup"),
                 !.wants_to_use = st("wants_to_use"),
                 !.wants_to_drop = st("wants_to_drop"),
                 !.serialization_helper = st("serialization_helper"),
                 !.equippable = st("equippable"),
                 !.equipped = st("equipped"),
                 !.melee_power_bonus = st("melee_power_bonus"),
                 !.defense_bonus = st("defense_bonus"),
                 !.wants_to_remove = st("wants_to_remove")]
        created_by(entity_of) ==
            read(entity_of, {entity_of[m] : m \in DOMAIN entity_of})
    IN created_by(RetrievedEntities(w, data))

Loaded == "Loaded game from save"

\* C9 mutant: the new entry goes to the end of the log.
restore_from_helper_appending(w, h) ==
    LET world_map == [f \in (DOMAIN h.map) \cup {"tile_content"} |->
                        IF f = "tile_content"
                        THEN [i \in DOMAIN h.map.tiles |-> <<>>]
                        ELSE h.map[f]]
    IN [w EXCEPT !.map = world_map,
                 !.gamelog = Append(h.game_log, Loaded)]

\* The body of the loop over the helpers: the Map comes back with an empty
\* tile_content, the GameLog comes back and gets a new first entry.
restore_from_helper(w, h) ==
    LET world_map == [f \in (DOMAIN h.map) \cup {"tile_content"} |->
                        IF f = "tile_content"
                        THEN [i \in DOMAIN h.map.tiles |-> <<>>]
                        ELSE h.map[f]]
    IN log_insert([w EXCEPT !.map = world_map, !.gamelog = h.game_log], Loaded)

\* for (e, h) in (&entities, &helper).join()
RECURSIVE restore_resources(_, _)
restore_resources(w, S) ==
    IF S = {} THEN w
    ELSE LET e == Min(S)
         IN restore_resources(restore_from_helper(w, w.serialization_helper[e]),
                              S \ {e})

\* C26 mutant: the player-entity resource is set, the Point is not.
RECURSIVE restore_player_keeping_point(_, _)
restore_player_keeping_point(w, S) ==
    IF S = {} THEN w
    ELSE LET e == Min(S)
         IN restore_player_keeping_point([w EXCEPT !.player_entity = e], S \ {e})

\* for (e, _p, pos) in (&entities, &player, &position).join()
RECURSIVE restore_player(_, _)
restore_player(w, S) ==
    IF S = {} THEN w
    ELSE LET e == Min(S)
         IN restore_player([w EXCEPT !.point = w.position[e],
                                     !.player_entity = e], S \ {e})

\* C25 mutant: the entities that carried the helper are not deleted.
load_game_keeping_helpers(w, file) ==
    LET helpers(w2) == w2.alive \cap DOMAIN w2.serialization_helper
        players(w3) == restore_player(w3, w3.alive \cap w3.player
                                              \cap DOMAIN w3.position)
        restore(w2) == players(restore_resources(w2, helpers(w2)))
    IN IF ~file.exists
       THEN [delete_entities(w, w.alive) EXCEPT !.panic = TRUE]
       ELSE restore(deserialize_individually(delete_entities(w, w.alive),
                                             file.data))

load_game(w, file) ==
    LET helpers(w2) == w2.alive \cap DOMAIN w2.serialization_helper
        players(w3) == restore_player(w3, w3.alive \cap w3.player
                                              \cap DOMAIN w3.position)
        restore(w2) ==
            delete_entities(players(restore_resources(w2, helpers(w2))),
                            helpers(w2))
    IN IF ~file.exists
       THEN [delete_entities(w, w.alive) EXCEPT !.panic = TRUE]  \* read_to_string
       ELSE restore(deserialize_individually(delete_entities(w, w.alive),
                                             file.data))

\* C16 mutant: the file is left where it is.
delete_save_keeping_file(file) == file

delete_save(file) == NoFile

(***************************************************************************)
(* State::tick (main.rs): one action per branch of the match.  Every       *)
(* frame ends by storing the new run-state and sweeping the dead.          *)
(***************************************************************************)
RunState(n) == [name |-> n]

MainMenu(selection) == [name |-> "MainMenu", menu_selection |-> selection]

\* The end of tick: *run_writer = new_run_state; delete_the_dead().
\* C29 mutant: the sweep runs before the new run-state is written.
end_of_frame_sweep_first(w, new_run_state) ==
    [delete_the_dead(w) EXCEPT !.run_state = new_run_state]

end_of_frame(w, new_run_state) ==
    delete_the_dead([w EXCEPT !.run_state = new_run_state])

\* The frame that takes the world to w, the run-state to new_run_state and
\* the save file to file.  A failed unwrap or expect stops the process where
\* it is.
Frame(w, new_run_state, file) ==
    LET commit(w1) ==
            /\ ~w1.overflow
            /\ Len(w1.gamelog) <= MaxLog
            /\ ecs' = w1
            /\ savegame' = file
            /\ process' = IF w1.panic THEN "panicked" ELSE "running"
            /\ UNCHANGED gen
    IN commit(IF w.panic THEN w ELSE end_of_frame(w, new_run_state))

\* The world at the start of a frame: nothing has been deleted in it yet.
Now == [ecs EXCEPT !.killed = {}]

\* The rolls the generator can make in this frame.
RollsNow == IF does_save_exist(savegame) THEN RestartRolls ELSE SpawnRolls

InState(n) == process = "running" /\ ecs.run_state.name = n

\* gui::game_over: no key yet.
TickGameOverNoSelection ==
    /\ InState("GameOver")
    /\ Frame(Now, ecs.run_state, savegame)

\* gui::game_over: a key.
TickGameOverQuitToMenu ==
    /\ InState("GameOver")
    /\ \E rolls \in RollsNow :
          Frame(game_over_cleanup(Now, rolls), MainMenu("NewGame"), savegame)

TickSaveGame ==
    /\ InState("SaveGame")
    /\ LET r == save_game(Now)
       IN Frame(r.w, MainMenu("LoadGame"), r.file)

\* The entries gui::main_menu lets the selection rest on.
MenuEntries == {"NewGame", "Quit"}
                 \cup (IF does_save_exist(savegame) THEN {"LoadGame"} ELSE {})

TickMainMenuNoSelection ==
    /\ InState("MainMenu")
    /\ \E selected \in MenuEntries :
          Frame(Now, MainMenu(selected), savegame)

TickMainMenuNewGame ==
    /\ InState("MainMenu")
    /\ ecs.run_state.menu_selection = "NewGame"
    /\ \E rolls \in RollsNow :
          Frame(game_over_cleanup(Now, rolls), RunState("PreRun"), savegame)

TickMainMenuLoadGame ==
    /\ InState("MainMenu")
    /\ ecs.run_state.menu_selection = "LoadGame"
    /\ Frame(load_game(Now, savegame), RunState("AwaitingInput"),
             delete_save(savegame))

\* ::std::process::exit(0)
TickMainMenuQuit ==
    /\ InState("MainMenu")
    /\ ecs.run_state.menu_selection = "Quit"
    /\ process' = "exited"
    /\ UNCHANGED <<ecs, savegame, gen>>

TickPreRun ==
    /\ InState("PreRun")
    /\ Frame(run_systems(Now), RunState("AwaitingInput"), savegame)

TickAwaitingInput ==
    /\ InState("AwaitingInput")
    /\ \E key \in Keys :
          LET r == player_input(Now, key)
          IN Frame(r.w, r.next, savegame)

TickPlayerTurn ==
    /\ InState("PlayerTurn")
    /\ Frame(run_systems(Now), RunState("MonsterTurn"), savegame)

TickMonsterTurn ==
    /\ InState("MonsterTurn")
    /\ Frame(run_systems(Now), RunState("AwaitingInput"), savegame)

\* What gui::show_inventory lists: the player's backpack.
Backpack(w) ==
    {i \in w.alive \cap DOMAIN w.in_backpack \cap DOMAIN w.name :
        w.in_backpack[i].owner = w.player_entity}

TickShowInventoryCancel ==
    /\ InState("ShowInventory")
    /\ Frame(Now, RunState("AwaitingInput"), savegame)

TickShowInventoryNoResponse ==
    /\ InState("ShowInventory")
    /\ Frame(Now, ecs.run_state, savegame)

ShowTargeting(range, item_entity) ==
    [name |-> "ShowTargeting", range |-> range, item |-> item_entity]

\* C18 mutant: a Ranged item is used at once, like any other.
TickShowInventorySelected_without_targeting ==
    /\ InState("ShowInventory")
    /\ \E item_entity \in Backpack(Now) :
          Frame([Now EXCEPT !.wants_to_use =
                               Insert(@, Now.player_entity,
                                      [item |-> item_entity,
                                       target |-> <<>>])],
                RunState("PlayerTurn"), savegame)

TickShowInventorySelected ==
    /\ InState("ShowInventory")
    /\ \E item_entity \in Backpack(Now) :
          IF item_entity \in DOMAIN Now.ranged
          THEN Frame(Now, ShowTargeting(Now.ranged[item_entity].range,
                                        item_entity), savegame)
          ELSE Frame([Now EXCEPT !.wants_to_use =
                                    Insert(@, Now.player_entity,
                                           [item |-> item_entity,
                                            target |-> <<>>])],
                     RunState("PlayerTurn"), savegame)

\* What gui::remove_item_menu lists: what the player has equipped.
Worn(w) ==
    {i \in w.alive \cap DOMAIN w.equipped \cap DOMAIN w.name :
        w.equipped[i].owner = w.player_entity}

TickShowRemoveItemCancel ==
    /\ InState("ShowRemoveItem")
    /\ Frame(Now, RunState("AwaitingInput"), savegame)

TickShowRemoveItemNoResponse ==
    /\ InState("ShowRemoveItem")
    /\ Frame(Now, ecs.run_state, savegame)

TickShowRemoveItemSelected ==
    /\ InState("ShowRemoveItem")
    /\ \E item_entity \in Worn(Now) :
          Frame([Now EXCEPT !.wants_to_remove =
                               Insert(@, Now.player_entity,
                                      [item |-> item_entity])],
                RunState("PlayerTurn"), savegame)

\* The tiles gui::ranged_target accepts: those the player sees within range.
ValidTargets(w, range) ==
    {pt \in [x : 0..(w.map.width - 1), y : 0..(w.map.height - 1)] :
        /\ InViewshed(w, w.player_entity, pt)
        /\ Dist2(w.point, pt) <= range * range}

TickShowTargetingCancel ==
    /\ InState("ShowTargeting")
    /\ Frame(Now, RunState("AwaitingInput"), savegame)

\* C17 mutant: the frame without a response forgets what is being targeted.
TickShowTargetingNoResponse_forgetting_item ==
    /\ InState("ShowTargeting")
    /\ Frame(Now, ShowTargeting(ecs.run_state.range, NoEntity), savegame)

TickShowTargetingNoResponse ==
    /\ InState("ShowTargeting")
    /\ Frame(Now, ecs.run_state, savegame)

TickShowTargetingSelected ==
    /\ InState("ShowTargeting")
    /\ \E pt \in ValidTargets(Now, ecs.run_state.range) :
          Frame([Now EXCEPT !.wants_to_use =
                               Insert(@, Now.player_entity,
                                      [item |-> ecs.run_state.item,
                                       target |-> <<pt>>])],
                RunState("PlayerTurn"), savegame)

TickShowDropItemCancel ==
    /\ InState("ShowDropItem")
    /\ Frame(Now, RunState("AwaitingInput"), savegame)

TickShowDropItemNoResponse ==
    /\ InState("ShowDropItem")
    /\ Frame(Now, ecs.run_state, savegame)

TickShowDropItemSelected ==
    /\ InState("ShowDropItem")
    /\ \E item_entity \in Backpack(Now) :
          Frame([Now EXCEPT !.wants_to_drop =
                               Insert(@, Now.player_entity,
                                      [item |-> item_entity])],
                RunState("PlayerTurn"), savegame)

TickNextLevel ==
    /\ InState("NextLevel")
    /\ Now.map.depth < MaxDepth
    /\ \E rolls \in RollsNow :
          Frame(goto_next_level(Now, rolls), RunState("PreRun"), savegame)

Init ==
    /\ ecs \in {main(rolls) : rolls \in SpawnRolls}
    /\ savegame = NoFile
    /\ process = "running"
    /\ gen = GenStart

Next ==
    \/ TickGameOverNoSelection
    \/ TickGameOverQuitToMenu
    \/ TickSaveGame
    \/ TickMainMenuNoSelection
    \/ TickMainMenuNewGame
    \/ TickMainMenuLoadGame
    \/ TickMainMenuQuit
    \/ TickPreRun
    \/ TickAwaitingInput
    \/ TickPlayerTurn
    \/ TickMonsterTurn
    \/ TickShowInventoryCancel
    \/ TickShowInventoryNoResponse
    \/ TickShowInventorySelected
    \/ TickNextLevel

Spec == Init /\ [][Next]_vars

(***************************************************************************)
(* The sessions that use, drop and remove items: every key but Save, and   *)
(* rolls that put items and a scroll into the rooms.                       *)
(***************************************************************************)
ItemGameOverQuitToMenu ==
    /\ InState("GameOver")
    /\ \E rolls \in ItemRolls :
          Frame(game_over_cleanup(Now, rolls), MainMenu("NewGame"), savegame)

ItemMainMenuNewGame ==
    /\ InState("MainMenu")
    /\ ecs.run_state.menu_selection = "NewGame"
    /\ \E rolls \in ItemRolls :
          Frame(game_over_cleanup(Now, rolls), RunState("PreRun"), savegame)

ItemAwaitingInput ==
    /\ InState("AwaitingInput")
    /\ \E key \in ItemKeys :
          LET r == player_input(Now, key)
          IN Frame(r.w, r.next, savegame)

ItemNextLevel ==
    /\ InState("NextLevel")
    /\ Now.map.depth < MaxDepth
    /\ \E rolls \in ItemRolls :
          Frame(goto_next_level(Now, rolls), RunState("PreRun"), savegame)

ItemInit ==
    /\ ecs \in {main(rolls) : rolls \in ItemRolls}
    /\ savegame = NoFile
    /\ process = "running"
    /\ gen = GenStart

ItemNext ==
    \/ TickGameOverNoSelection
    \/ ItemGameOverQuitToMenu
    \/ TickMainMenuNoSelection
    \/ ItemMainMenuNewGame
    \/ TickMainMenuQuit
    \/ TickPreRun
    \/ ItemAwaitingInput
    \/ TickPlayerTurn
    \/ TickMonsterTurn
    \/ TickShowInventoryCancel
    \/ TickShowInventoryNoResponse
    \/ TickShowInventorySelected
    \/ TickShowRemoveItemCancel
    \/ TickShowRemoveItemNoResponse
    \/ TickShowRemoveItemSelected
    \/ TickShowTargetingCancel
    \/ TickShowTargetingNoResponse
    \/ TickShowTargetingSelected
    \/ TickShowDropItemCancel
    \/ TickShowDropItemNoResponse
    \/ TickShowDropItemSelected
    \/ ItemNextLevel

ItemSpec == ItemInit /\ [][ItemNext]_vars

(***************************************************************************)
(* The generator alone: one step per attempt of its loop.                  *)
(***************************************************************************)
\* rng.range(MIN_SIZE, MAX_SIZE)
Sizes == MIN_SIZE..MAX_SIZE

\* rng.roll_dice(1, n) - 1
Origins(n) == 0..(n - 1)

GenInit ==
    /\ ecs = EmptyWorld
    /\ savegame = NoFile
    /\ process = "generating"
    /\ gen = GenStart

GenAttempt ==
    /\ process = "generating"
    /\ gen.attempts < MAX_ROOMS
    /\ \E w \in Sizes, h \in Sizes, horizontal_first \in BOOLEAN :
          \E x \in Origins(gen.map.width - w - 1),
             y \in Origins(gen.map.height - h - 1) :
             gen' = [map |-> generate_room(gen.map, w, h, x, y, horizontal_first),
                     attempts |-> gen.attempts + 1]
    /\ UNCHANGED <<ecs, savegame, process>>

\* The loop is over: the map is returned.
GenReturn ==
    /\ process = "generating"
    /\ gen.attempts = MAX_ROOMS
    /\ process' = "generated"
    /\ UNCHANGED <<ecs, savegame, gen>>

GenNext == GenAttempt \/ GenReturn

GenSpec == GenInit /\ [][GenNext]_vars

(***************************************************************************)
(* The generator and the frame loop that places the player in room 0 of    *)
(* what the generator returns: a behaviour is one of the generator or one  *)
(* of the frame loop.                                                      *)
(***************************************************************************)
DungeonInit == Init \/ GenInit

DungeonNext == Next \/ GenNext

DungeonSpec == DungeonInit /\ [][DungeonNext]_vars

(***************************************************************************)
(* The melee pass and the damage pass alone, on worlds whose fighters may  *)
(* have any hp: MeleeCombatSystem::run is handed the storages as they are. *)
(***************************************************************************)
\* The hp a fighter may have when the pass runs.
MeleeHps == {-1, 0, 1}

\* The Player between a Goblin and an Orc, as the spawner makes them.
Fighters ==
    log_insert(monster(monster(player(EmptyWorld, StartX, 1),
                               StartX - 1, 1, Goblin),
                       StartX + 1, 1, Orc),
               "Welcome to my game")

\* Every fighter has some hp and an intent on one of the others.
MeleeInit ==
    /\ \E hp \in [Fighters.alive -> MeleeHps],
          to \in {f \in [Fighters.alive -> Fighters.alive] :
                    \A e \in Fighters.alive : f[e] # e} :
          ecs = [Fighters EXCEPT
                   !.combat_stats = [e \in Fighters.alive |->
                                        [Fighters.combat_stats[e]
                                            EXCEPT !.hp = hp[e]]],
                   !.wants_to_melee = [e \in Fighters.alive |->
                                          [target |-> to[e]]]]
    /\ savegame = NoFile
    /\ process = "melee"
    /\ gen = GenStart

\* MeleeCombatSystem::run
MeleePass ==
    /\ process = "melee"
    /\ ecs' = MeleeCombatSystem(ecs)
    /\ process' = "damage"
    /\ UNCHANGED <<savegame, gen>>

\* DamageSystem::run
DamagePass ==
    /\ process = "damage"
    /\ ecs' = DamageSystem(ecs)
    /\ process' = "applied"
    /\ UNCHANGED <<savegame, gen>>

MeleeNext == MeleePass \/ DamagePass

MeleeSpec == MeleeInit /\ [][MeleeNext]_vars

(***************************************************************************)
(* The melee pass of a frame that runs the systems batch.                  *)
(***************************************************************************)
\* A frame that runs the systems batch is about to start.
BatchState ==
    /\ process = "running"
    /\ ecs.run_state.name \in {"PreRun", "PlayerTurn", "MonsterTurn"}

\* The world that frame hands to the melee system.
BeforeMelee == MapIndexingSystem(MonsterAI(Now))

\* The world the melee loop has made when it comes to attacker e.
MeleeAt(e) == melee_loop(BeforeMelee, {a \in MeleeJoin(BeforeMelee) : a < e})

TargetOf(e) == BeforeMelee.wants_to_melee[e].target

\* The intents of that pass whose attacker and target both have hp > 0.
LiveIntents ==
    {e \in MeleeJoin(BeforeMelee) :
        /\ BeforeMelee.combat_stats[e].hp > 0
        /\ TargetOf(e) \in DOMAIN BeforeMelee.combat_stats
        /\ TargetOf(e) \in DOMAIN BeforeMelee.name
        /\ BeforeMelee.combat_stats[TargetOf(e)].hp > 0}

\* The items entity owner has equipped.
EquippedBy(w, owner) ==
    {i \in DOMAIN w.equipped : w.equipped[i].owner = owner}

\* The damage the specification states for attacker a and target t.
StatedDamage(w, a, t) ==
    LET weapons == EquippedBy(w, a) \cap DOMAIN w.melee_power_bonus
        armour == EquippedBy(w, t) \cap DOMAIN w.defense_bonus
        attack == w.combat_stats[a].power
                    + SumOf([i \in weapons |-> w.melee_power_bonus[i].power],
                            weapons)
        defence == w.combat_stats[t].defense
                    + SumOf([i \in armour |-> w.defense_bonus[i].defense],
                            armour)
    IN IF attack - defence > 0 THEN attack - defence ELSE 0

\* C1: whenever the melee system processes an intent whose attacker and
\* target both have hp > 0, the damage it computes is
\* max(0, (power + the attacker's equipped MeleePowerBonus)
\*        - (defense + the target's equipped DefenseBonus)),
\* and no item equipped by another entity contributes; a positive damage is
\* the amount of the SufferDamage the attack attaches.
C1_MeleeDamageFormula ==
    BatchState =>
        \A e \in LiveIntents :
            LET t == TargetOf(e)
                d == StatedDamage(BeforeMelee, e, t)
            IN /\ melee_damage(MeleeAt(e), e, t) = d
               /\ d > 0 => /\ t \in DOMAIN melee_attack(MeleeAt(e), e).suffer_damage
                           /\ melee_attack(MeleeAt(e), e).suffer_damage[t].amount = d

\* C1 witness: the Player (power 2) who wields the Dagger (power 2) has hit
\* an Orc (defense 2): the newest log line reports 2 hp.
C1_Witness ==
    /\ process = "running"
    /\ ecs.gamelog # <<>>
    /\ ecs.gamelog[1] = Hits("Player", "Orc", 2)
    /\ \E i \in EquippedBy(ecs, ecs.player_entity) : ecs.name[i] = "Dagger"

\* The lines the pass adds for attacker e, newest first.
LinesOf(e) ==
    SubSeq(melee_attack(MeleeAt(e), e).gamelog, 1,
           Len(melee_attack(MeleeAt(e), e).gamelog) - Len(MeleeAt(e).gamelog))

\* The hp of entity t after the damage pass of the same batch.
HpAfterBatch(t) == DamageSystem(MeleeCombatSystem(BeforeMelee)).combat_stats[t].hp

\* C2: a computed damage of 0 adds exactly one "is unable to hurt" line and
\* attaches no SufferDamage, and a target only attacked with damage 0 keeps
\* its hp through the damage pass; a positive damage adds exactly one "hits"
\* line and attaches SufferDamage to the target.
C2_ZeroAndPositiveDamage ==
    BatchState =>
        \A e \in LiveIntents :
            LET t == TargetOf(e)
                d == StatedDamage(BeforeMelee, e, t)
                before == MeleeAt(e)
                after == melee_attack(before, e)
                attacker == BeforeMelee.name[e]
                target == BeforeMelee.name[t]
            IN IF d = 0
               THEN /\ LinesOf(e) = <<UnableToHurt(attacker, target)>>
                    /\ after.suffer_damage = before.suffer_damage
                    /\ (\A a \in LiveIntents :
                           TargetOf(a) = t => StatedDamage(BeforeMelee, a, t) = 0)
                         => HpAfterBatch(t) = BeforeMelee.combat_stats[t].hp
               ELSE /\ LinesOf(e) = <<Hits(attacker, target, d)>>
                    /\ t \in DOMAIN after.suffer_damage

\* C2 witness: the unarmed Player (power 2) has attacked an Orc (defense 2):
\* the newest line says the Player is unable to hurt it, no SufferDamage is
\* left and every Orc still has its full hp.
C2_Witness ==
    /\ process = "running"
    /\ ecs.gamelog # <<>>
    /\ ecs.gamelog[1] = UnableToHurt("Player", "Orc")
    /\ ecs.suffer_damage = EmptyStorage
    /\ \A e \in ecs.monster : ecs.combat_stats[e].hp = ecs.combat_stats[e].max_hp

\* C3: SufferDamage accumulates: when two or more attackers hit the same
\* target with positive damage in one melee pass, the damage pass of that
\* batch reduces the target's hp by the sum of those hits.
C3_DamageAccumulates ==
    BatchState =>
        \A t \in DOMAIN BeforeMelee.combat_stats :
            LET hitters == {e \in LiveIntents :
                               /\ TargetOf(e) = t
                               /\ StatedDamage(BeforeMelee, e, t) > 0}
            IN Cardinality(hitters) >= 2 =>
                  HpAfterBatch(t) =
                      BeforeMelee.combat_stats[t].hp
                        - SumOf([e \in hitters |-> StatedDamage(BeforeMelee, e, t)],
                                hitters)

(***************************************************************************)
(* The death sweep at the end of a frame.                                  *)
(***************************************************************************)
\* The world a frame of the systems batch hands to the sweep.
BeforeSweep ==
    [run_systems(Now) EXCEPT !.run_state =
        IF ecs.run_state.name = "PlayerTurn"
        THEN RunState("MonsterTurn") ELSE RunState("AwaitingInput")]

\* The non-player entities the sweep finds with hp < 1.
Dying(w) ==
    {e \in w.alive \cap DOMAIN w.combat_stats :
        w.combat_stats[e].hp < 1 /\ e \notin w.player}

\* How often line occurs in log.
Count(log, line) == Cardinality({k \in 1..Len(log) : log[k] = line})

\* C4: the death sweep ends every frame: at no frame boundary does a
\* non-player entity with hp < 1 exist, and the sweep of a frame deletes
\* exactly the non-player entities with hp < 1 and adds, for each one that
\* has a Name, one "<name> is dead" line to the log (and no other line).
C4_DeathSweep ==
    process = "running" =>
        /\ Dying(ecs) = {}
        /\ BatchState /\ ~BeforeSweep.panic =>
              LET w == BeforeSweep
                  swept == delete_the_dead(w)
                  names == {w.name[e] : e \in Dying(w) \cap DOMAIN w.name}
              IN /\ swept.alive = w.alive \ Dying(w)
                 /\ Len(swept.gamelog) =
                       Len(w.gamelog) + Cardinality(Dying(w) \cap DOMAIN w.name)
                 /\ SubSeq(swept.gamelog,
                           Len(swept.gamelog) - Len(w.gamelog) + 1,
                           Len(swept.gamelog)) = w.gamelog
                 /\ \A n \in names :
                       Count(swept.gamelog, IsDead(n)) =
                         Count(w.gamelog, IsDead(n))
                           + Cardinality({e \in Dying(w) \cap DOMAIN w.name :
                                             w.name[e] = n})

\* C4 witness: the sweep has just deleted a Goblin the Player killed.
C4_Witness ==
    /\ process = "running"
    /\ ecs.gamelog # <<>>
    /\ ecs.gamelog[1] = IsDead("Goblin")
    /\ ecs.killed # {}
    /\ \A e \in ecs.alive \cap DOMAIN ecs.name : ecs.name[e] # "Goblin"

\* C5: the sweep never deletes the player: at every frame boundary the
\* player entity exists, and when its hp is < 1 the run-state left for the
\* next frame is GameOver, whatever the frame's branch had committed.
C5_PlayerDeathIsGameOver ==
    process = "running" =>
        /\ ecs.player_entity \in ecs.alive \cap ecs.player
        /\ ecs.player_entity \in DOMAIN ecs.combat_stats
        /\ ecs.combat_stats[ecs.player_entity].hp < 1
              => ecs.run_state.name = "GameOver"
        /\ BatchState /\ ~BeforeSweep.panic
              /\ BeforeSweep.combat_stats[ecs.player_entity].hp < 1
              => /\ BeforeSweep.run_state.name # "GameOver"
                 /\ delete_the_dead(BeforeSweep).run_state.name = "GameOver"
                 /\ ecs.player_entity \in delete_the_dead(BeforeSweep).alive

\* C5 witness: the player's hp is < 1 at a frame boundary, in GameOver.
C5_Witness ==
    /\ process = "running"
    /\ ecs.player_entity \in ecs.alive
    /\ ecs.combat_stats[ecs.player_entity].hp < 1
    /\ ecs.run_state.name = "GameOver"

(***************************************************************************)
(* The level transition.                                                   *)
(***************************************************************************)
\* What the specification lets survive a level transition.
StatedSurvivors(w) ==
    {e \in w.alive : e \in w.player}
    \cup {e \in w.alive \cap DOMAIN w.in_backpack :
            w.in_backpack[e].owner = w.player_entity}
    \cup {e \in w.alive \cap DOMAIN w.equipped :
            w.equipped[e].owner = w.player_entity}

\* C6: of the entities that exist before goto_next_level, exactly those
\* that carry Player, are in the player's backpack or are equipped by the
\* player still exist after it; every other one has been deleted.
C6_LevelChangeSurvivors ==
    process = "running" /\ ecs.run_state.name = "NextLevel" =>
        \A rolls \in SpawnRolls :
            LET w == goto_next_level(Now, rolls)
            IN /\ w.killed = ecs.alive \ StatedSurvivors(ecs)
               /\ StatedSurvivors(ecs) \subseteq w.alive
               /\ \A e \in StatedSurvivors(ecs) : w.name[e] = ecs.name[e]

\* C6 witness: a level transition has just deleted entities of the level
\* above, and the player and an item the player has equipped are still there.
C6_Witness ==
    /\ process = "running"
    /\ ecs.run_state.name = "PreRun"
    /\ ecs.map.depth = 2
    /\ ecs.killed # {}
    /\ ecs.player_entity \in ecs.alive \ ecs.killed
    /\ \E i \in (ecs.alive \cap DOMAIN ecs.equipped) \ ecs.killed :
           ecs.equipped[i].owner = ecs.player_entity

\* C7: goto_next_level sets the player's hp to max(hp, max_hp / 2), the
\* division truncating: hp is raised to half of max_hp when it was below,
\* never lowered, and max_hp, defense and power stay as they were.
C7_LevelChangeHeal ==
    process = "running" /\ ecs.run_state.name = "NextLevel" =>
        \A rolls \in SpawnRolls :
            LET before == ecs.combat_stats[ecs.player_entity]
                after == goto_next_level(Now, rolls).combat_stats[ecs.player_entity]
                half == before.max_hp \div 2
            IN /\ after.hp = IF before.hp < half THEN half ELSE before.hp
               /\ after.hp >= before.hp
               /\ after.max_hp = before.max_hp
               /\ after.defense = before.defense
               /\ after.power = before.power

\* C7 witness: the player came down with hp 2 and now has 3, half of 7.
C7_Witness ==
    /\ process = "running"
    /\ ecs.run_state.name = "PreRun"
    /\ ecs.gamelog # <<>>
    /\ ecs.gamelog[1] = Descend
    /\ ecs.combat_stats[ecs.player_entity].max_hp = 7
    /\ ecs.combat_stats[ecs.player_entity].hp = 3

(***************************************************************************)
(* Save and load.                                                          *)
(***************************************************************************)
\* The component types the save file holds for the entities of the game.
Persisted == SeqToSet(FileOrder) \ {"serialization_helper"}

\* The entity of world to that carries the marker entity e has in world from.
Counterpart(from, to, e) ==
    CHOOSE x \in to.alive \cap DOMAIN to.marker : to.marker[x] = from.marker[e]

\* Component value v of type c with its entity-valued fields renamed by f.
Renamed(c, v, f) ==
    CASE c = "wants_to_melee" -> [v EXCEPT !.target = f[@]]
      [] c = "in_backpack" -> [v EXCEPT !.owner = f[@]]
      [] c = "equipped" -> [v EXCEPT !.owner = f[@]]
      [] c = "wants_to_pickup" ->
            [v EXCEPT !.collected_by = f[@], !.item = f[@]]
      [] c = "wants_to_use" -> [v EXCEPT !.item = f[@]]
      [] c = "wants_to_drop" -> [v EXCEPT !.item = f[@]]
      [] c = "wants_to_remove" -> [v EXCEPT !.item = f[@]]
      [] OTHER -> v

\* World to is world from up to a renaming of the entities, apart from the
\* tile_content of the Map.
SameUpToRenaming(from, to) ==
    /\ Cardinality(to.alive) = Cardinality(from.alive)
    /\ from.alive \subseteq DOMAIN from.marker
    /\ \A e \in from.alive :
          \E x \in to.alive \cap DOMAIN to.marker : to.marker[x] = from.marker[e]
    /\ LET f == [e \in from.alive |-> Counterpart(from, to, e)]
       IN /\ {f[e] : e \in from.alive} = to.alive
          /\ \A c \in Persisted :
                /\ \A e \in from.alive : Has(to, c, f[e]) <=> Has(from, c, e)
                /\ \A e \in from.alive :
                      Has(from, c, e) /\ c \notin Markers
                        => to[c][f[e]] = Renamed(c, from[c][e], f)
    /\ \A k \in (DOMAIN from.map) \ {"tile_content"} : to.map[k] = from.map[k]
    /\ DOMAIN to.map = DOMAIN from.map

\* C8: save followed by load is a round trip: the loaded world has as many
\* entities as the saved one and, for every persisted component type, the
\* same component values up to one renaming of the entities, which the
\* entity-valued fields follow, and the same Map apart from tile_content.
C8_SaveLoadRoundTrip ==
    process = "running" /\ ecs.run_state.name = "SaveGame" =>
        LET saved == save_game(Now)
            loaded == load_game(saved.w, saved.file)
        IN /\ ~saved.w.panic
           /\ saved.file.exists
           /\ ~loaded.panic
           /\ SameUpToRenaming(Now, loaded)

\* C8 witness: a game has just been loaded in which the player owns an
\* item and the player entity is not the one its marker numbers.
C8_Witness ==
    /\ process = "running"
    /\ ecs.run_state.name = "AwaitingInput"
    /\ ecs.gamelog # <<>>
    /\ ecs.gamelog[1] = Loaded
    /\ ecs.marker[ecs.player_entity] # ecs.player_entity
    /\ \E i \in ecs.alive \cap DOMAIN ecs.equipped :
           ecs.equipped[i].owner = ecs.player_entity
    /\ \E i \in ecs.alive \cap DOMAIN ecs.in_backpack :
           ecs.in_backpack[i].owner = ecs.player_entity

\* The log the save file holds.
FileLog(file) == file.data["serialization_helper"][1][2].game_log

\* C9: the log after load_game is the saved log with one new entry, "Loaded
\* game from save", at index 0: the saved entries follow in their order, and
\* nothing of the log that was in memory before the load is left.
C9_LoadedLog ==
    process = "running" =>
        /\ ecs.run_state.name = "SaveGame" =>
              FileLog(save_game(Now).file) = ecs.gamelog
        /\ does_save_exist(savegame) =>
              LET w == load_game(Now, savegame)
              IN /\ Len(w.gamelog) = Len(FileLog(savegame)) + 1
                 /\ w.gamelog[1] = Loaded
                 /\ SubSeq(w.gamelog, 2, Len(w.gamelog)) = FileLog(savegame)

\* C9 witness: a game has just been loaded whose saved log had two entries
\* or more; the newest entry is the one load_game adds.
C9_Witness ==
    /\ process = "running"
    /\ ecs.run_state.name = "AwaitingInput"
    /\ ~does_save_exist(savegame)
    /\ Len(ecs.gamelog) >= 3
    /\ ecs.gamelog[1] = Loaded

\* The living entities with BlocksTile and CombatStats that stand on (x, y).
Blockers(w, x, y) ==
    {e \in w.alive \cap w.blocks_tile \cap DOMAIN w.combat_stats
              \cap DOMAIN w.position :
        w.position[e] = [x |-> x, y |-> y]}

\* C10: in every AwaitingInput state, however it was reached, a movement
\* request of the player whose destination tile is occupied by a BlocksTile
\* entity with CombatStats attaches WantsToMelee targeting that entity to
\* the player and leaves the player's Position as it is.
C10_BumpToAttack ==
    process = "running" /\ ecs.run_state.name = "AwaitingInput" =>
        \A delta \in {<<-1, 0>>, <<1, 0>>, <<0, -1>>, <<0, 1>>} :
            LET mover == ecs.player_entity
                pos == ecs.position[mover]
                there == Blockers(ecs, pos.x + delta[1], pos.y + delta[2])
                w == try_move_player(Now, delta[1], delta[2])
            IN there # {} =>
                  /\ mover \in DOMAIN w.wants_to_melee
                  /\ w.wants_to_melee[mover].target \in there
                  /\ w.position[mover] = pos

(***************************************************************************)
(* The generated dungeon.                                                  *)
(***************************************************************************)
\* The tiles a room carves to Floor, as <<x, y>>.
Carved(room) == ((room.x1 + 1)..room.x2) \X ((room.y1 + 1)..room.y2)

\* Two rectangles share a tile-sized square of the plane (they overlap on
\* open intervals; rectangles that only touch do not).
Overlap(a, b) ==
    \E x \in a.x1..(a.x2 - 1), y \in a.y1..(a.y2 - 1) :
        x >= b.x1 /\ x < b.x2 /\ y >= b.y1 /\ y < b.y2

\* C11: in every dungeon the generator makes, no two rectangles of
\* map.rooms intersect, and every room lies within the 1-tile border of the
\* grid: no tile a room carves to Floor has x = 0, x = width - 1, y = 0 or
\* y = height - 1.
C11_RoomsApartAndInside ==
    LET rooms == gen.map.rooms
    IN /\ \A j \in 1..Len(rooms), k \in 1..Len(rooms) :
             j # k => ~Overlap(rooms[j], rooms[k])
       /\ \A k \in 1..Len(rooms) :
             \A t \in Carved(rooms[k]) :
                /\ t[1] > 0 /\ t[1] < gen.map.width - 1
                /\ t[2] > 0 /\ t[2] < gen.map.height - 1
                /\ gen.map.tiles[xy_idx(gen.map, t[1], t[2])] = "Floor"

\* C11 witness: a returned dungeon of three rooms, two of which touch the
\* border from inside: one room starts at the origin, one ends at the last
\* column the rolls allow.
C11_Witness ==
    /\ process = "generated"
    /\ Len(gen.map.rooms) = 3
    /\ \E k \in 1..3 : gen.map.rooms[k].x1 = 0 /\ gen.map.rooms[k].y1 = 0
    /\ \E k \in 1..3 : gen.map.rooms[k].x2 = gen.map.width - 2

\* Tiles i and j are neighbours in one of the four directions.
Adjacent(map, i, j) ==
    \/ (i \div map.width = j \div map.width) /\ (i - j = 1 \/ j - i = 1)
    \/ (i % map.width = j % map.width)
          /\ (i - j = map.width \/ j - i = map.width)

\* The Floor tiles reachable from the tiles of seen over 4-connected Floor
\* tiles.
RECURSIVE Flood(_, _)
Flood(map, seen) ==
    LET more == {j \in DOMAIN map.tiles :
                    /\ map.tiles[j] = "Floor"
                    /\ \E i \in seen : Adjacent(map, i, j)}
    IN IF more \subseteq seen THEN seen ELSE Flood(map, seen \cup more)

CenterIdx(map, room) == xy_idx(map, center(room).x, center(room).y)

\* All tiles of row y between columns x1 and x2 are Floor.
FloorRow(map, x1, x2, y) ==
    \A x \in Min({x1, x2})..Max2(x1, x2) : map.tiles[xy_idx(map, x, y)] = "Floor"

\* All tiles of column x between rows y1 and y2 are Floor.
FloorColumn(map, y1, y2, x) ==
    \A y \in Min({y1, y2})..Max2(y1, y2) : map.tiles[xy_idx(map, x, y)] = "Floor"

\* C12: in every dungeon of two rooms or more, the center tile of every
\* room is reachable from the center tile of room 0 over 4-connected Floor
\* tiles, and every room after room 0 is joined to the room accepted before
\* it by a horizontal and a vertical tunnel between the two centers, in one
\* of the two orders.
C12_RoomsConnected ==
    LET map == gen.map
        rooms == gen.map.rooms
    IN Len(rooms) >= 2 =>
          /\ map.tiles[CenterIdx(map, rooms[1])] = "Floor"
          /\ \A k \in 1..Len(rooms) :
                CenterIdx(map, rooms[k]) \in Flood(map, {CenterIdx(map, rooms[1])})
          /\ \A k \in 2..Len(rooms) :
                LET prev == center(rooms[k - 1])
                    new == center(rooms[k])
                IN \/ /\ FloorRow(map, prev.x, new.x, prev.y)
                      /\ FloorColumn(map, prev.y, new.y, new.x)
                   \/ /\ FloorColumn(map, prev.y, new.y, prev.x)
                      /\ FloorRow(map, prev.x, new.x, new.y)

\* C12 witness: a returned dungeon in which a room and the room accepted
\* before it do not touch, so that only the tunnels join them, and the
\* tunnels turn a corner.
C12_Witness ==
    /\ process = "generated"
    /\ \E k \in 2..Len(gen.map.rooms) :
          LET a == gen.map.rooms[k - 1]
              b == gen.map.rooms[k]
          IN /\ a.x2 < b.x1 \/ b.x2 < a.x1 \/ a.y2 < b.y1 \/ b.y2 < a.y1
             /\ center(a).x # center(b).x
             /\ center(a).y # center(b).y

(***************************************************************************)
(* The frame loop.                                                         *)
(***************************************************************************)
\* C13: at every frame boundary, whatever sequence of New Game, Load Game,
\* level transition, death and game-over cleanup led to it, exactly one
\* entity carries Player, and the player Entity resource is that live
\* entity.
C13_OnePlayer ==
    process = "running" =>
        /\ Cardinality(ecs.alive \cap ecs.player) = 1
        /\ ecs.alive \cap ecs.player = {ecs.player_entity}

\* C13 witness: the frame that acknowledged a game over has deleted the dead
\* player with everything else and made a new one.
C13_Witness ==
    /\ process = "running"
    /\ ecs.run_state = MainMenu("NewGame")
    /\ ecs.killed # {}
    /\ ecs.alive \cap ecs.player = {ecs.player_entity}
    /\ ecs.combat_stats[ecs.player_entity].hp = PlayerStats.hp

\* The run-state the branch of a systems frame commits.
Committed(n) ==
    CASE n = "PreRun" -> "AwaitingInput"
      [] n = "PlayerTurn" -> "MonsterTurn"
      [] n = "MonsterTurn" -> "AwaitingInput"

\* One run of the systems batch, system by system.
OneBatch(w) ==
    ItemRemoveSystem(ItemDropSystem(ItemUseSystem(ItemCollectionSystem(
        DamageSystem(MeleeCombatSystem(MapIndexingSystem(MonsterAI(w))))))))

\* C14: a frame that starts in PreRun, PlayerTurn or MonsterTurn takes no
\* input, runs the systems batch exactly once and ends in AwaitingInput,
\* MonsterTurn and AwaitingInput respectively, unless the sweep at its end
\* finds the player with hp < 1 and leaves GameOver; so two frames after
\* PlayerTurn was entered the run-state is AwaitingInput or GameOver.
C14_TurnCycle ==
    [][BatchState =>
        LET from == ecs.run_state.name
            batch == OneBatch(Now)
            dead == batch.combat_stats[ecs.player_entity].hp < 1
        IN /\ process' = "running"
           /\ ecs'.run_state = RunState(IF dead THEN "GameOver" ELSE Committed(from))
           /\ ecs' = delete_the_dead([batch EXCEPT !.run_state =
                                          RunState(Committed(from))])
           /\ from = "PlayerTurn" /\ ~dead =>
                 LET second == OneBatch([ecs' EXCEPT !.killed = {}])
                 IN delete_the_dead([second EXCEPT !.run_state =
                                        RunState("AwaitingInput")]).run_state.name
                       \in {"AwaitingInput", "GameOver"}]_vars

\* C14 witness: a turn is over, in which an Orc attacked in the MonsterTurn
\* frame and the player lived: the run-state is AwaitingInput again.
C14_Witness ==
    /\ process = "running"
    /\ ecs.run_state.name = "AwaitingInput"
    /\ ecs.gamelog # <<>>
    /\ ecs.gamelog[1] = Hits("Orc", "Player", 5)
    /\ ecs.combat_stats[ecs.player_entity].hp >= 1

(***************************************************************************)
(* Saving, loading and the menus.                                          *)
(***************************************************************************)
\* C15: a frame that starts in SaveGame writes the save and ends in
\* MainMenu with Load Game selected; apart from the run-state, the world
\* after the frame (entities, components, Map, GameLog, player resource) is
\* the world before it: the helper entity is gone again.
C15_SaveGameFrame ==
    [][process = "running" /\ ecs.run_state.name = "SaveGame" =>
        /\ process' = "running"
        /\ does_save_exist(savegame')
        /\ Len(savegame'.data["serialization_helper"]) = 1
        /\ savegame'.data["serialization_helper"][1][2] =
              [map |-> map_to_file(ecs.map), game_log |-> ecs.gamelog]
        /\ \A c \in Persisted :
              Len(savegame'.data[c]) = Cardinality({e \in ecs.alive : Has(ecs, c, e)})
        /\ ecs'.run_state = MainMenu("LoadGame")
        /\ ecs'.serialization_helper = EmptyStorage
        /\ [ecs' EXCEPT !.run_state = ecs.run_state, !.killed = ecs.killed] = ecs
        /\ ecs'.killed \cap ecs'.alive = {}]_vars

\* C15 witness: a game in which the player carries an item has just been
\* saved: the file exists, the menu rests on Load Game, the helper is the
\* one entity the frame deleted.
C15_Witness ==
    /\ process = "running"
    /\ ecs.run_state = MainMenu("LoadGame")
    /\ does_save_exist(savegame)
    /\ Cardinality(ecs.killed) = 1
    /\ FileLog(savegame) = ecs.gamelog
    /\ \E i \in ecs.alive \cap DOMAIN ecs.in_backpack :
           ecs.in_backpack[i].owner = ecs.player_entity

\* The step is the frame in which Load Game is chosen in the main menu.
LoadStep ==
    /\ ecs.run_state = MainMenu("LoadGame")
    /\ ecs'.run_state.name # "MainMenu"

\* C16: load_game is only invoked while the save file exists (the menu
\* never rests on Load Game without one), and the frame in which Load Game
\* is chosen ends in AwaitingInput with the file deleted; a file only comes
\* into being in a SaveGame frame and only goes in a load, so every save is
\* loaded at most once and a SaveGame frame lies between two loads.
C16_LoadOnlyWithSave ==
    /\ [](process = "running" /\ ecs.run_state = MainMenu("LoadGame")
            => does_save_exist(savegame))
    /\ [][process = "running" =>
            /\ LoadStep =>
                  /\ does_save_exist(savegame)
                  /\ process' = "running"
                  /\ ecs'.run_state = RunState("AwaitingInput")
                  /\ ~does_save_exist(savegame')
            /\ ~does_save_exist(savegame) /\ does_save_exist(savegame')
                  => ecs.run_state.name = "SaveGame"
            /\ does_save_exist(savegame) /\ ~does_save_exist(savegame')
                  => LoadStep
            /\ does_save_exist(savegame) /\ does_save_exist(savegame')
                  /\ savegame' # savegame
                  => ecs.run_state.name = "SaveGame"]_vars

\* C16 witness: a game has been loaded, saved again and loaded again: the
\* log starts with the two entries of the two loads and no file is left.
C16_Witness ==
    /\ process = "running"
    /\ ecs.run_state.name = "AwaitingInput"
    /\ ~does_save_exist(savegame)
    /\ Len(ecs.gamelog) >= 3
    /\ ecs.gamelog[1] = Loaded
    /\ ecs.gamelog[2] = Loaded

Modals == {"ShowInventory", "ShowDropItem", "ShowRemoveItem", "ShowTargeting"}

\* C17: a frame that starts in a modal and ends in AwaitingInput (the
\* modal was cancelled) changes nothing but the run-state: no intent is
\* attached, and no entity, component, Map or GameLog entry changes, the
\* sweep at its end included; a frame that starts in a modal and ends in
\* the same modal (no response) changes nothing at all, the range and the
\* item of ShowTargeting included; neither touches the save file.
C17_ModalCancelAndWait ==
    [][process = "running" /\ ecs.run_state.name \in Modals =>
          /\ ecs'.run_state.name = "AwaitingInput" =>
                /\ ecs' = [Now EXCEPT !.run_state = RunState("AwaitingInput")]
                /\ savegame' = savegame
                /\ process' = "running"
          /\ ecs'.run_state.name = ecs.run_state.name =>
                /\ ecs' = Now
                /\ savegame' = savegame
                /\ process' = "running"]_vars

\* C17 witness: the targeting modal is open for a scroll of the backpack
\* with a monster in range, and no intent is attached: the state a
\* cancelled or unanswered frame of it starts in and, unanswered, ends in.
C17_Witness ==
    /\ process = "running"
    /\ ecs.run_state.name = "ShowTargeting"
    /\ ecs.run_state.item \in Backpack(ecs)
    /\ ecs.run_state.range = ecs.ranged[ecs.run_state.item].range
    /\ ecs.wants_to_use = EmptyStorage
    /\ \E m \in ecs.monster :
           ecs.position[m] \in ValidTargets(ecs, ecs.run_state.range)

\* C18: a frame that starts in ShowInventory ends in ShowInventory,
\* AwaitingInput, ShowTargeting or PlayerTurn.  If it ends in ShowTargeting,
\* the run-state holds an item of the backpack that carries Ranged and the
\* range of that Ranged, and nothing else changed: no WantsToUseItem is
\* attached.  If it ends in PlayerTurn, exactly a WantsToUseItem of the
\* player for an item of the backpack without Ranged, with no target, was
\* attached.  And whenever a frame leaves a WantsToUseItem for a Ranged
\* item, the frame started in ShowTargeting, the intent is the player's,
\* its item is the one the modal held and its target is present.
C18_InventorySelection ==
    [][process = "running" =>
          /\ ecs.run_state.name = "ShowInventory" =>
                /\ process' = "running"
                /\ ecs'.run_state.name \in {"ShowInventory", "AwaitingInput",
                                             "ShowTargeting", "PlayerTurn"}
                /\ ecs'.run_state.name = "ShowTargeting" =>
                      /\ ecs'.run_state.item \in
                              Backpack(Now) \cap DOMAIN Now.ranged
                      /\ ecs'.run_state.range =
                              Now.ranged[ecs'.run_state.item].range
                      /\ ecs'.wants_to_use = EmptyStorage
                      /\ ecs' = [Now EXCEPT !.run_state = ecs'.run_state]
                /\ ecs'.run_state.name = "PlayerTurn" =>
                      \E item_entity \in Backpack(Now) \ DOMAIN Now.ranged :
                          ecs' = [Now EXCEPT
                                    !.run_state = RunState("PlayerTurn"),
                                    !.wants_to_use =
                                        Insert(EmptyStorage, Now.player_entity,
                                               [item |-> item_entity,
                                                target |-> <<>>])]
          /\ \A e \in DOMAIN ecs'.wants_to_use :
                ecs'.wants_to_use[e].item \in DOMAIN ecs'.ranged =>
                    /\ ecs.run_state.name = "ShowTargeting"
                    /\ e = ecs.player_entity
                    /\ ecs'.wants_to_use[e].item = ecs.run_state.item
                    /\ ecs'.wants_to_use[e].target # <<>>]_vars

\* C18 witness: the frame after the targeting modal: the player's
\* WantsToUseItem is for the scroll, its target is the tile of an Orc, and
\* the run-state is PlayerTurn.
C18_Witness ==
    /\ process = "running"
    /\ ecs.run_state.name = "PlayerTurn"
    /\ ecs.player_entity \in DOMAIN ecs.wants_to_use
    /\ LET intent == ecs.wants_to_use[ecs.player_entity]
       IN /\ intent.item \in DOMAIN ecs.ranged
          /\ intent.item \in Backpack(ecs)
          /\ intent.target # <<>>
          /\ \E m \in ecs.monster :
                 ecs.name[m] = "Orc" /\ ecs.position[m] = intent.target[1]

\* C19: a frame that starts in GameOver either changes nothing, so the
\* run-state is GameOver again (no key yet), or it is the acknowledging
\* frame: every entity of the old game is deleted, the Map is a new map of
\* depth 1, the one player entity is new, at the center of room 0, with
\* full hp >= 1, nobody alive has hp < 1, nothing is carried or worn, and
\* the frame ends in MainMenu with New Game selected: the sweep at its end
\* does not bring GameOver back.
C19_GameOverAcknowledged ==
    [][process = "running" /\ ecs.run_state.name = "GameOver" =>
          \/ ecs' = Now /\ process' = "running"
          \/ /\ process' = "running"
             /\ ecs'.run_state = MainMenu("NewGame")
             /\ Now.alive \subseteq ecs'.killed
             /\ ecs'.map = new_map_rooms_and_corridors(1)
             /\ ecs'.player = {ecs'.player_entity}
             /\ ecs'.player_entity \in ecs'.alive
             /\ ecs'.combat_stats[ecs'.player_entity] = PlayerStats
             /\ PlayerStats.hp >= 1
             /\ ecs'.position[ecs'.player_entity] = center(ecs'.map.rooms[1])
             /\ ecs'.point = center(ecs'.map.rooms[1])
             /\ \A e \in ecs'.alive \cap DOMAIN ecs'.combat_stats :
                    ecs'.combat_stats[e].hp >= 1
             /\ ecs'.in_backpack = EmptyStorage
             /\ ecs'.equipped = EmptyStorage
             /\ savegame' = savegame]_vars

\* C19 witness: the main menu after an acknowledged game over in which two
\* Orcs killed the player in two turns: the four newest log lines are
\* their hits, the player entity is new with full hp, and the entities of
\* the old game were deleted in this frame.
C19_Witness ==
    /\ process = "running"
    /\ ecs.run_state = MainMenu("NewGame")
    /\ ecs.killed # {}
    /\ ecs.map.depth = 1
    /\ ecs.combat_stats[ecs.player_entity] = PlayerStats
    /\ Len(ecs.gamelog) >= 4
    /\ \E n \in 1..PlayerStats.max_hp :
           \A i \in 1..4 : ecs.gamelog[i] = Hits("Orc", "Player", n)

\* C20: after the frame in which New Game is chosen in the main menu the
\* GameLog holds exactly one entry, the welcome message.
C20_LogResetOnNewGame ==
    [][/\ process = "running"
       /\ ecs.run_state = MainMenu("NewGame")
       /\ ecs'.run_state.name = "PreRun"
       => ecs'.gamelog = <<"Welcome to my game">>]_vars

(***************************************************************************)
(* The game log.                                                           *)
(***************************************************************************)
\* Log new is log old with entries inserted in front of it.
GrownFrom(old, new) ==
    /\ Len(new) >= Len(old)
    /\ SubSeq(new, Len(new) - Len(old) + 1, Len(new)) = old

\* C21: the log is newest-first and only grows during play: every frame but
\* the one that loads a game leaves the log it found with its new entries
\* in front of it, nothing removed or reordered; within a frame of the
\* systems batch the lines of the melee pass go in front of the old log,
\* those of the later systems in front of these and those of the death
\* sweep in front of all; the load leaves the saved log below its own
\* entry.
C21_LogNewestFirst ==
    [][process = "running" =>
        /\ IF LoadStep
           THEN ecs'.gamelog = <<Loaded>> \o FileLog(savegame)
           ELSE GrownFrom(ecs.gamelog, ecs'.gamelog)
        /\ BatchState =>
              /\ GrownFrom(ecs.gamelog, MeleeCombatSystem(BeforeMelee).gamelog)
              /\ GrownFrom(MeleeCombatSystem(BeforeMelee).gamelog,
                           BeforeSweep.gamelog)
              /\ GrownFrom(BeforeSweep.gamelog, ecs'.gamelog)]_vars

\* C21 witness: the Player has killed a Goblin with one hit: the line of the
\* sweep is the newest, the line of the hit is below it, older lines follow.
C21_Witness ==
    /\ process = "running"
    /\ Len(ecs.gamelog) >= 3
    /\ ecs.gamelog[1] = IsDead("Goblin")
    /\ ecs.gamelog[2] = Hits("Player", "Goblin", 2)

(***************************************************************************)
(* Intents and accumulators across the systems batch.                      *)
(***************************************************************************)
\* The step is a frame of the systems batch that did not stop the process.
BatchStep == BatchState /\ process' = "running"

UseDamage(w) ==
    {[amount |-> w.inflicts_damage[w.wants_to_use[u].item].damage] :
        u \in {v \in DOMAIN w.wants_to_use :
                  w.wants_to_use[v].item \in DOMAIN w.inflicts_damage}}

Effective(w, e) ==
    /\ w.combat_stats[e].hp > 0
    /\ w.combat_stats[w.wants_to_melee[e].target].hp > 0

\* The lines an attack of a on t can log.
AttackLines(w, a, t) ==
    {UnableToHurt(w.name[a], w.name[t])}
    \cup {Hits(w.name[a], w.name[t], d) : d \in 1..8}

\* C23: an attacker whose hp is <= 0 when the melee pass runs deals no
\* damage and produces no log line, and an attack on a target whose hp is
\* <= 0 attaches no SufferDamage and produces no log line; in both cases
\* the intent is consumed.  So the pass logs one line for each intent with
\* a living attacker and a living target and no other, a fighter carries
\* SufferDamage only from such an intent, and a target no such intent
\* damages keeps its hp through the damage pass.
C23_NoAttackWithoutHp ==
    [][process = "melee" =>
         /\ ecs'.wants_to_melee = EmptyStorage
         /\ Len(ecs'.gamelog) = Len(ecs.gamelog)
               + Cardinality({e \in DOMAIN ecs.wants_to_melee : Effective(ecs, e)})
         /\ \A e \in DOMAIN ecs.wants_to_melee :
               ~Effective(ecs, e) =>
                  \A k \in 1..Len(ecs'.gamelog) :
                     ecs'.gamelog[k] \notin
                        AttackLines(ecs, e, ecs.wants_to_melee[e].target)
         /\ \A t \in ecs.alive :
               IF \E e \in DOMAIN ecs.wants_to_melee :
                     /\ ecs.wants_to_melee[e].target = t
                     /\ Effective(ecs, e)
                     /\ melee_damage(ecs, e, t) > 0
               THEN t \in DOMAIN ecs'.suffer_damage
               ELSE /\ t \notin DOMAIN ecs'.suffer_damage
                    /\ DamageSystem(ecs').combat_stats[t].hp
                          = ecs.combat_stats[t].hp]_vars

\* C23 witness: the pass has run on three intents, the Goblin and the Orc
\* without hp and the Player with an intent on one of them: nothing was
\* logged, no SufferDamage is attached and no intent is left.
C23_Witness ==
    /\ process = "damage"
    /\ \A e \in ecs.alive :
          (ecs.combat_stats[e].hp > 0) = (e \in ecs.player)
    /\ ecs.gamelog = Fighters.gamelog
    /\ ecs.suffer_damage = EmptyStorage
    /\ ecs.wants_to_melee = EmptyStorage

(***************************************************************************)
(* The exits of a tile.                                                    *)
(***************************************************************************)
\* Tile (x, y) of the map is not blocked.
Unblocked(map, x, y) ==
    /\ xy_idx(map, x, y) \in DOMAIN map.blocked
    /\ ~map.blocked[xy_idx(map, x, y)]

\* Tile idx lies on the outer border of the map.
OnBorder(map, idx) ==
    \/ idx % map.width \in {0, map.width - 1}
    \/ idx \div map.width \in {0, map.height - 1}

\* The coordinates is_exit_valid is asked about: the map and one tile more
\* on every side.
Around(map) == (-1..map.width) \X (-1..map.height)

C25_NoHelperAtFrameBoundary ==
    /\ process = "running" => ecs.serialization_helper = EmptyStorage
    /\ does_save_exist(savegame)
          => Len(savegame.data["serialization_helper"]) = 1
    /\ InState("SaveGame") /\ ~save_game(Now).w.panic =>
          /\ save_game(Now).w.serialization_helper = EmptyStorage
          /\ save_game(Now).w.alive = ecs.alive
          /\ Len(save_game(Now).file.data["serialization_helper"]) = 1
    /\ InState("MainMenu") /\ does_save_exist(savegame) =>
          /\ load_game(Now, savegame).serialization_helper = EmptyStorage
          /\ load_game(Now, savegame).gamelog
                = <<Loaded>> \o FileLog(savegame)
          /\ map_to_file(load_game(Now, savegame).map)
                = savegame.data["serialization_helper"][1][2].map

\* C25 witness: a game saved on the second level has been loaded: the log
\* and the Map came back from the helper, and no entity carries it.
C25_Witness ==
    /\ InState("AwaitingInput")
    /\ Len(ecs.gamelog) >= 2
    /\ ecs.gamelog[1] = Loaded
    /\ ecs.gamelog[2] = Descend
    /\ ecs.map.depth = 2
    /\ ecs.killed # {}
    /\ ecs.serialization_helper = EmptyStorage

(***************************************************************************)
(* What load_game leaves of the world it was called in.                    *)
(***************************************************************************)
\* The markers the records of component c in the file belong to.
MarkersOf(file, c) == {file.data[c][k][1] : k \in 1..Len(file.data[c])}

\* C26: load_game first deletes every entity that existed before the load,
\* so no pre-load entity survives: the entities after the load are the ones
\* made for the markers of the file, the helper's apart, and carry nothing
\* but what the file holds for their marker.  After it the player-entity
\* resource is the loaded entity that carries Player and Position, and the
\* Point resource equals that entity's Position.
C26_LoadReplacesWorld ==
    [][process = "running" /\ LoadStep =>
         /\ ecs.alive \subseteq ecs'.killed
         /\ Cardinality(ecs'.alive) =
               Cardinality(UNION {MarkersOf(savegame, c) : c \in Persisted})
         /\ \A e \in ecs'.alive :
               /\ e \in DOMAIN ecs'.marker
               /\ \A c \in Persisted :
                     Has(ecs', c, e) <=> ecs'.marker[e] \in MarkersOf(savegame, c)
         /\ ecs'.player_entity \in ecs'.alive
         /\ ecs'.alive \cap ecs'.player \cap DOMAIN ecs'.position
               = {ecs'.player_entity}
         /\ ecs'.marker[ecs'.player_entity] \in MarkersOf(savegame, "player")
         /\ ecs'.point = ecs'.position[ecs'.player_entity]
         /\ \E k \in 1..Len(savegame.data["position"]) :
               /\ savegame.data["position"][k][1] = ecs'.marker[ecs'.player_entity]
               /\ savegame.data["position"][k][2] = ecs'.point]_vars

\* C26 witness: a game has been loaded over another one: the identifier of
\* the player entity is one of those deleted in the frame of the load, and
\* the Point is where the loaded player stands, away from the start tile.
C26_Witness ==
    /\ InState("AwaitingInput")
    /\ ecs.gamelog # <<>>
    /\ ecs.gamelog[1] = Loaded
    /\ ecs.player_entity \in ecs.killed
    /\ ecs.point = ecs.position[ecs.player_entity]
    /\ ecs.point.x # StartX

(***************************************************************************)
(* Where an item is, and who owns it.                                      *)
(***************************************************************************)
\* The places item i is in: on the map, in a backpack, equipped.
PlacesOf(w, i) ==
    {c \in {"position", "in_backpack", "equipped"} : i \in DOMAIN w[c]}

\* C27: at every frame boundary every InBackpack.owner and every
\* Equipped.owner is an entity that still exists, and no item entity has
\* more than one of Position, InBackpack and Equipped; no record of either
\* component is left on a deleted entity.
C27_ItemsOwnedAndPlaced ==
    process = "running" =>
        /\ \A i \in DOMAIN ecs.in_backpack :
              i \in ecs.alive /\ ecs.in_backpack[i].owner \in ecs.alive
        /\ \A i \in DOMAIN ecs.equipped :
              i \in ecs.alive /\ ecs.equipped[i].owner \in ecs.alive
        /\ \A i \in ecs.item : Cardinality(PlacesOf(ecs, i)) <= 1

\* C27 witness: the Player wears the Dagger and has just dropped the Shield
\* they had picked up: one item equipped, the other back on the map.
C27_Witness ==
    /\ process = "running"
    /\ ecs.gamelog # <<>>
    /\ ecs.gamelog[1] = YouDrop("Shield")
    /\ \E i \in ecs.item :
          /\ ecs.name[i] = "Dagger"
          /\ PlacesOf(ecs, i) = {"equipped"}
          /\ ecs.equipped[i].owner = ecs.player_entity
    /\ \E i \in ecs.item :
          /\ ecs.name[i] = "Shield"
          /\ PlacesOf(ecs, i) = {"position"}

(***************************************************************************)
(* Room 0, the start room.                                                 *)
(***************************************************************************)
\* The player of world w stands on the center of room 0 of the map of w,
\* the Point is that tile and the tile is Floor.
Placed(w) ==
    /\ Len(w.map.rooms) >= 1
    /\ Len(w.map.rooms) <= 30
    /\ w.player_entity \in w.alive \cap DOMAIN w.position
    /\ w.position[w.player_entity] = center(w.map.rooms[1])
    /\ w.point = center(w.map.rooms[1])
    /\ w.map.tiles[xy_idx(w.map, w.point.x, w.point.y)] = "Floor"

\* The step is a frame that builds a map and places the player: the level
\* transition, New Game, or the key that leaves the game-over screen.
PlacingStep ==
    /\ process = "running" /\ process' = "running"
    /\ \/ ecs.run_state.name = "NextLevel"
       \/ ecs.run_state = MainMenu("NewGame") /\ ecs'.run_state.name = "PreRun"
       \/ ecs.run_state.name = "GameOver" /\ ecs'.run_state.name = "MainMenu"

\* C28: every generated dungeon has between 1 and MAX_ROOMS accepted rooms:
\* the first proposed rectangle is always accepted and stays room 0, and
\* its center is a Floor tile.  So room 0 exists whenever startup, New Game
\* or the level transition read its center, and after each of them the
\* player's Position and the Point are the center of room 0 of the current
\* map, a Floor tile.
C28_RoomZeroIsStart ==
    /\ process = "running" => Placed(ecs)
    /\ [](process \in {"generating", "generated"} =>
            /\ Len(gen.map.rooms) <= gen.attempts
            /\ gen.attempts <= MAX_ROOMS
            /\ (gen.attempts >= 1) =>
                  /\ Len(gen.map.rooms) >= 1
                  /\ gen.map.tiles[xy_idx(gen.map, center(gen.map.rooms[1]).x,
                                           center(gen.map.rooms[1]).y)] = "Floor"
            /\ (process = "generated") => (gen.attempts = MAX_ROOMS))
    /\ [][/\ (process = "generating" /\ gen.attempts = 0 /\ gen' # gen) =>
              \E w \in Sizes, h \in Sizes :
                 \E x \in Origins(gen.map.width - w - 1),
                    y \in Origins(gen.map.height - h - 1) :
                    gen'.map.rooms = <<Rect_new(x, y, w, h)>>
          /\ (process = "generating" /\ gen.attempts >= 1) =>
              (gen'.map.rooms[1] = gen.map.rooms[1])
          /\ PlacingStep => Placed(ecs')]_vars

\* C28 witness: the player has descended from a tile away from the start
\* room and stands on the center of room 0 of the second level.
C28_Witness ==
    /\ InState("PreRun")
    /\ ecs.map.depth = 2
    /\ ecs.gamelog[1] = Descend
    /\ \E k \in 2..Len(ecs.gamelog) : ecs.gamelog[k] = YouPickUp("Dagger")
    /\ Placed(ecs)

(***************************************************************************)
(* The hp of the player at the start of a frame.                           *)
(***************************************************************************)
\* The hp the file holds for the entities it holds a Player record for.
SavedPlayerHp(file) ==
    {file.data["combat_stats"][k][2].hp :
        k \in {j \in 1..Len(file.data["combat_stats"]) :
                  file.data["combat_stats"][j][1] \in MarkersOf(file, "player")}}

\* C29: at the start of every frame in a run-state other than GameOver the
\* player exists and has hp >= 1, so a player with hp < 1 is only seen at
\* the start of a GameOver frame; and every save file holds a player with
\* hp >= 1, so none is written or loaded with a dead player.
C29_PlayerAliveOutsideGameOver ==
    process = "running" =>
        /\ ecs.player_entity \in ecs.alive \cap DOMAIN ecs.combat_stats
        /\ ecs.run_state.name # "GameOver"
              => ecs.combat_stats[ecs.player_entity].hp >= 1
        /\ does_save_exist(savegame) =>
              /\ SavedPlayerHp(savegame) # {}
              /\ \A hp \in SavedPlayerHp(savegame) : hp >= 1
        /\ InState("SaveGame") =>
              \A hp \in SavedPlayerHp(save_game(Now).file) : hp >= 1

\* C29 witness: a game was saved, and the player of the game started after
\* that has died: the frame starts in GameOver with hp < 1 while the file
\* holds the saved player with all its hp.
C29_Witness ==
    /\ InState("GameOver")
    /\ ecs.combat_stats[ecs.player_entity].hp < 1
    /\ does_save_exist(savegame)
    /\ SavedPlayerHp(savegame) = {PlayerStats.hp}

(***************************************************************************)
(* The unwraps of the melee pass.                                          *)
(***************************************************************************)
\* The entities some tile of the occupancy index of w lists that no longer
\* exist.
StaleContent(w) ==
    UNION {SeqToSet(w.map.tile_content[i]) : i \in DOMAIN w.map.tile_content}
       \ w.alive

\* C30: whenever the melee pass processes the intent of a living attacker,
\* the target exists and carries CombatStats, and a target with hp > 0
\* carries a Name, so neither unwrap of the pass fails; and at no frame
\* boundary does an intent target an entity that no longer exists, whatever
\* the death sweep deleted since the intent was issued.
C30_MeleeUnwrapsHold ==
    process = "running" =>
        /\ \A e \in DOMAIN ecs.wants_to_melee :
              /\ e \in ecs.alive
              /\ ecs.wants_to_melee[e].target \in ecs.alive
        /\ BatchState =>
              /\ \A e \in MeleeJoin(BeforeMelee) :
                    BeforeMelee.combat_stats[e].hp > 0 =>
                       /\ TargetOf(e) \in BeforeMelee.alive
                       /\ TargetOf(e) \in DOMAIN BeforeMelee.combat_stats
                       /\ BeforeMelee.combat_stats[TargetOf(e)].hp > 0
                             => TargetOf(e) \in DOMAIN BeforeMelee.name
              /\ ~MeleeCombatSystem(BeforeMelee).panic

\* C30 witness: the Player has killed the Goblin and the death sweep has
\* deleted it; the occupancy index still lists it when the monsters' turn
\* starts, in which the Orc, alive, attacks the Player, who exists.
C30_Witness ==
    /\ InState("MonsterTurn")
    /\ StaleContent(ecs) # {}
    /\ ecs.gamelog[1] = IsDead("Goblin")
    /\ \E e \in MeleeJoin(BeforeMelee) :
          /\ BeforeMelee.name[e] = "Orc"
          /\ BeforeMelee.combat_stats[e].hp > 0
          /\ TargetOf(e) = ecs.player_entity

====
